---- MODULE Spec2Model ----
(***************************************************************************)
(* WebTerm server: the session registry and message router                 *)
(* (src/src/server/websocket-handler.ts), the pty adapter                  *)
(* (src/unnamed/part_000, PTYManager) and the output coalescer that        *)
(* handleAuth installs on every spawned shell.                             *)
(*                                                                         *)
(* One action per event the single Node scheduler delivers: an inbound     *)
(* frame, a pong, a transport close / error, a shell data chunk, a shell   *)
(* exit, a coalescer timer, a heartbeat tick, the shutdown signal.         *)
(***************************************************************************)
EXTENDS Integers, Sequences, FiniteSets, TLC

(* ------------------------------ bounds -------------------------------- *)
\* number of transport connections the model follows
NConn == 2
\* number of shell processes that can be spawned in one run
MaxProc == 2
\* number of inputs (inbound frames and shell output chunks) of one run
MaxInputs == 4
\* constructor argument rateLimit (default 2000), kept small
rateLimit == 2
\* constructor argument tokenExpiry of AuthService, in seconds (default 3600), kept small
tokenExpiry == 60
\* number of tokens issued in one run
MaxTokens == 1

(* ------------------------- program constants -------------------------- *)
\* constructor argument maxMessageSize, at its default
maxMessageSize == 20 * 1024 * 1024
\* outputBuffer.length > 8192
HighWaterMark == 8192
\* Math.floor((now - session.lastMinute) / 60000)
WindowMs == 60000

Conn == 1..NConn
Proc == 1..MaxProc

\* instants the clock Date.now() is observed at
TimePoints == {0, 59999, 60000}

\* sizes of the chunks a shell emits (string lengths)
ChunkSizes == {1, 8191, 8193}

(* ---------------------------- wire frames ----------------------------- *)
Undefined == "<undefined>"

\* MessageType enum
AUTH == "auth"
INPUT == "input"
OUTPUT == "output"
RESIZE == "resize"
FILE_UPLOAD == "file-upload"
FILE_DOWNLOAD == "file-download"
ERROR == "error"
READY == "ready"

\* a file name is the sequence of its '/'-separated segments
\* ("" is << >>, "/etc/passwd" is <<"", "etc", "passwd">>, "dir/" is <<"dir", "">>)
FileNames ==
    { <<"a.txt">>, <<"..", "..", "etc", "passwd">>, <<"", "etc", "passwd">>,
      <<"..">>, << >>, <<"dir", "">>, <<Undefined>> }

\* the value JSON.parse gives for a text frame: kind "bad" does not parse,
\* "null" is the JSON null, "prim" a number or string, "obj" an object
\* (data is the string field of a text message; a binary upload carries the
\* Buffer `bytes` instead and isBuffer is TRUE)
NoMsg == [type |-> Undefined, data |-> Undefined, cols |-> 0, rows |-> 0,
          filename |-> <<Undefined>>, token |-> Undefined,
          isBuffer |-> FALSE, bytes |-> << >>]

TextFrame(s, j, o) ==
    [isBinary |-> FALSE, size |-> s, json |-> j, obj |-> o, len |-> s,
     headerLength |-> 0, rest |-> << >>]

\* a binary frame of len bytes: a u32 headerLength (when len >= 4) and the
\* bytes `rest` that follow it (the first of them when the frame is huge)
BinaryFrame(n, h, r) ==
    [isBinary |-> TRUE, size |-> n, json |-> "bad", obj |-> NoMsg, len |-> n,
     headerLength |-> h, rest |-> r]

Objects ==
    { [NoMsg EXCEPT !.type = AUTH, !.token = t] : t \in {Undefined, "tok"} }
    \cup { [NoMsg EXCEPT !.type = INPUT, !.data = d] : d \in {"a", "b"} }
    \cup { [NoMsg EXCEPT !.type = RESIZE, !.cols = 120, !.rows = 40] }
    \cup { [NoMsg EXCEPT !.type = FILE_UPLOAD, !.filename = f, !.data = "ZGF0YQ=="] :
             f \in FileNames }
    \cup { [NoMsg EXCEPT !.type = FILE_UPLOAD, !.filename = <<"a.txt">>] }
    \cup { [NoMsg EXCEPT !.type = t] : t \in {OUTPUT, "bogus", Undefined} }

\* byte length of an ordinary frame
SmallSize == 16

\* the objects that are also sent in a frame of the maximal size and in an
\* oversize frame
BigObjects ==
    { [NoMsg EXCEPT !.type = AUTH, !.token = "tok"],
      [NoMsg EXCEPT !.type = INPUT, !.data = "a"],
      [NoMsg EXCEPT !.type = FILE_UPLOAD, !.filename = <<"a.txt">>, !.data = "ZGF0YQ=="] }

TextFrames ==
    { TextFrame(SmallSize, j, NoMsg) : j \in {"bad", "null", "prim"} }
    \cup { TextFrame(SmallSize, "obj", o) : o \in Objects }
    \cup { TextFrame(s, "obj", o) : s \in {maxMessageSize, maxMessageSize + 1}, o \in BigObjects }

BinaryFrames ==
    { BinaryFrame(2, 0, << >>),
      BinaryFrame(7, 3, <<"{", "f", "}">>),
      BinaryFrame(8, 3, <<"{", "f", "}", "x">>),
      BinaryFrame(6, 2, <<"{", "}">>),
      BinaryFrame(5, 1, <<"n">>),
      BinaryFrame(6, 2, <<"x", "x">>),
      BinaryFrame(7, 0, <<"{", "f", "}">>),
      BinaryFrame(7, 100, <<"{", "f", "}">>),
      BinaryFrame(6, 100, <<"{", "f">>),
      BinaryFrame(maxMessageSize + 1, 3, <<"{", "f", "}">>) }

Frames == TextFrames \cup BinaryFrames

Auth(t) == TextFrame(SmallSize, "obj", [NoMsg EXCEPT !.type = AUTH, !.token = t])
Input(d) == TextFrame(SmallSize, "obj", [NoMsg EXCEPT !.type = INPUT, !.data = d])
Resize == TextFrame(SmallSize, "obj", [NoMsg EXCEPT !.type = RESIZE, !.cols = 120, !.rows = 40])
Upload(f) == TextFrame(SmallSize, "obj", [NoMsg EXCEPT !.type = FILE_UPLOAD, !.filename = f,
                                                       !.data = "ZGF0YQ=="])
Sized(f, n) == [f EXCEPT !.size = n, !.len = n]

\* the frames of the router's cases: each routed type, an unrouted type, a
\* frame that does not decode, and frames at and above the size limit
RouterFrames ==
    { Auth("tok"), Input("a"), Input("b"), Resize, Upload(<<"a.txt">>),
      BinaryFrame(8, 3, <<"{", "f", "}", "x">>),
      TextFrame(SmallSize, "obj", [NoMsg EXCEPT !.type = "bogus"]),
      TextFrame(SmallSize, "bad", NoMsg),
      Sized(Input("a"), maxMessageSize),
      Sized(Input("a"), maxMessageSize + 1),
      Sized(Auth("tok"), maxMessageSize + 1),
      Sized(Upload(<<"a.txt">>), maxMessageSize + 1),
      BinaryFrame(maxMessageSize + 1, 3, <<"{", "f", "}">>) }

\* the frames of a client that authenticates and types
LifecycleFrames == { Auth("tok"), Input("a") }

\* the frames that make a session produce output
OutputFrames == { Auth("tok"), Upload(<<"a.txt">>) }

NoFrame == [isBinary |-> FALSE, size |-> 0, json |-> "bad", obj |-> NoMsg, len |-> 0, headerLength |-> 0, rest |-> << >>]

\* lastMsg when the last step delivered no frame
NoDelivery == [c |-> 0, frame |-> NoFrame]

(* ------------------------------- state -------------------------------- *)
VARIABLES
    now,               \* Date.now()
    heartbeatInterval, \* TRUE while the setInterval of the constructor is armed
    ws,                \* readyState of each transport
    sessions,          \* the Map<WebSocket, SessionState>
    procState,         \* each shell process: "none", "running", "exited"
    procOwner,         \* the transport the callbacks of a process closed over
    killCount,         \* times ptyProcess.kill was invoked on a process
    ptyInput,          \* data passed to ptyProcess.write, in order
    ptySize,           \* <<cols, rows>> of each process
    outputBuffer,      \* closure variable outputBuffer of each process
    flushTimeout,      \* closure variable flushTimeout (TRUE: a timer is pending)
    timers,            \* setTimeout(flush, 5) callbacks of each process not yet run or cleared
    emitted,           \* chunks each shell has emitted so far
    sent,              \* frames passed to ws.send, per transport
    writes,            \* calls of fs.writeFileSync that succeeded
    nInputs,           \* inbound frames and shell chunks delivered so far
    lastMsg,           \* the frame the last step delivered and its transport, if it delivered one
    issued,            \* what generateToken has returned so far
    lastCheck,         \* the last call of validateToken: its argument, Date.now() and outcome
    pinged,            \* the transports the last interval callback called ws.ping() on
    lastCall           \* the last direct call of a PTYManager method and the error it threw

vars == <<now, heartbeatInterval, ws, sessions, procState, procOwner,
          killCount, ptyInput, ptySize, outputBuffer, flushTimeout, timers,
          emitted, sent, writes, nInputs, lastMsg, issued, lastCheck, pinged, lastCall>>

procVars == <<procState, procOwner, killCount, ptyInput, ptySize, outputBuffer,
              flushTimeout, timers, emitted>>

timeVars == <<now, heartbeatInterval>>

authVars == <<issued, lastCheck>>

(* ------------------------------ helpers ------------------------------- *)
Min(a, b) == IF a < b THEN a ELSE b

\* length of the string that is the concatenation of the chunks of buf
RECURSIVE StrLen(_)
StrLen(buf) == IF buf = << >> THEN 0 ELSE Head(buf).size + StrLen(Tail(buf))

\* outbound messages
OutMsg(t, d, m, f) == [type |-> t, data |-> d, message |-> m, filename |-> f]
OutputMsg(buf) == OutMsg(OUTPUT, buf, "", << >>)
ErrorMsg(m) == OutMsg(ERROR, << >>, m, << >>)
ReadyMsg == OutMsg(READY, << >>, "sh", << >>)
UploadDoneMsg(f) == OutMsg(OUTPUT, << >>, "Upload complete", f)

\* send: ws.send only when the transport is OPEN
send(s, readyState, c, m) ==
    IF readyState[c] = "OPEN" THEN [s EXCEPT ![c] = Append(@, m)] ELSE s

sendError(s, readyState, c, m) == send(s, readyState, c, ErrorMsg(m))

\* ws.close(): an OPEN transport starts its closing handshake
wsClose_noop(readyState, c) == readyState

wsClose(readyState, c) ==
    IF readyState[c] = "OPEN" THEN [readyState EXCEPT ![c] = "CLOSING"] ELSE readyState

\* ws.terminate(): the socket is destroyed, the close event follows
wsTerminate_noop(readyState, c) == readyState

wsTerminate(readyState, c) ==
    IF readyState[c] = "CLOSED" THEN readyState ELSE [readyState EXCEPT ![c] = "CLOSING"]

\* rate limiting of handleMessage
WindowElapsed_strict(t, lastMinute) == t - lastMinute > WindowMs

WindowElapsed(t, lastMinute) == (t - lastMinute) \div WindowMs > 0

RateExceeded_early(count) == count >= rateLimit

RateExceeded(count) == count > rateLimit

TooLarge_wrongLimit(size) == size > 2 * maxMessageSize

TooLarge(size) == size > maxMessageSize

\* the coalescer's high-water test
BufferIsLarge_wrongMark(buf) == StrLen(buf) > 2 * HighWaterMark

BufferIsLarge(buf) == StrLen(buf) > HighWaterMark

\* outputBuffer += data
Buffered_overwrite(buf, chunk) == <<chunk>>

Buffered_prepend(buf, chunk) == <<chunk>> \o buf

Buffered(buf, chunk) == Append(buf, chunk)

\* the guard of the INPUT, RESIZE and FILE_UPLOAD cases of routeMessage
Authenticated_always(session) == TRUE

Authenticated(session) == session.authenticated

(* JSON.parse of the header bytes of a binary frame: {"filename": ...},   *)
(* {} (no filename), null, or a syntax error.                             *)
ParseHeader(bytes) ==
    IF bytes = <<"{", "f", "}">> THEN [ok |-> TRUE, isNull |-> FALSE, filename |-> <<"a.txt">>]
    ELSE IF bytes = <<"{", "}">> THEN [ok |-> TRUE, isNull |-> FALSE, filename |-> <<Undefined>>]
    ELSE IF bytes = <<"n">> THEN [ok |-> TRUE, isNull |-> TRUE, filename |-> <<Undefined>>]
    ELSE [ok |-> FALSE, isNull |-> FALSE, filename |-> <<Undefined>>]

(* The try block of handleMessage up to routeMessage: the decoded message, *)
(* or threw = TRUE when decoding throws.  A null message makes             *)
(* routeMessage throw on message.type; "prim" has no type.                 *)
Decode(f) ==
    IF f.isBinary
    THEN IF f.len < 4
         THEN [threw |-> TRUE, msg |-> NoMsg]
         ELSE LET end == Min(f.headerLength, Len(f.rest))
                  header == ParseHeader(SubSeq(f.rest, 1, end))
                  fileData == SubSeq(f.rest, end + 1, Len(f.rest))
              IN  IF ~header.ok \/ header.isNull
                  THEN [threw |-> TRUE, msg |-> NoMsg]
                  ELSE [threw |-> FALSE,
                        msg |-> [NoMsg EXCEPT !.type = FILE_UPLOAD,
                                              !.filename = header.filename,
                                              !.isBuffer = TRUE,
                                              !.bytes = fileData]]
    ELSE IF f.json \in {"bad", "null"}
         THEN [threw |-> TRUE, msg |-> NoMsg]
         ELSE IF f.json = "prim"
              THEN [threw |-> FALSE, msg |-> NoMsg]
              ELSE [threw |-> FALSE, msg |-> f.obj]

(* paths: process.cwd(), path.basename, path.resolve, String.startsWith    *)
Cwd == <<"srv", "app">>

RECURSIVE StripTrailing(_)
StripTrailing(segs) ==
    IF segs # << >> /\ segs[Len(segs)] = ""
    THEN StripTrailing(SubSeq(segs, 1, Len(segs) - 1))
    ELSE segs

Basename(segs) ==
    LET t == StripTrailing(segs) IN IF t = << >> THEN "" ELSE t[Len(t)]

Resolve(dir, name) ==
    IF name \in {"", "."} THEN dir
    ELSE IF name = ".." THEN SubSeq(dir, 1, Len(dir) - 1)
    ELSE Append(dir, name)

StartsWith_always(path, dir) == TRUE

StartsWith(path, dir) ==
    Len(path) >= Len(dir) /\ SubSeq(path, 1, Len(dir)) = dir

\* Buffer.from(data, 'base64') of a text upload
Base64Decode(d) == IF d = "ZGF0YQ==" THEN <<"d", "a", "t", "a">> ELSE << >>

\* the process ids pty.spawn has not handed out yet
FreePids == {p \in Proc : procState[p] = "none"}

NextPid == CHOOSE p \in FreePids : \A q \in FreePids : p <= q

NewSession == [ptyProcess |-> 0, authenticated |-> FALSE,
               messageCount |-> 0, lastMinute |-> now, isAlive |-> TRUE]

\* PTYManager.kill: the process whose kill is invoked (0: none)
KillTarget(session) == session.ptyProcess

kill(kc, session) ==
    IF KillTarget(session) # 0
    THEN [kc EXCEPT ![KillTarget(session)] = @ + 1]
    ELSE kc

Remove(m, c) == [x \in DOMAIN m \ {c} |-> m[x]]

\* PTYManager.isAlive
PTYManager_isAlive(session) == session.ptyProcess # 0

\* the outcome of a direct call of a PTYManager method
NoError == "none"
NotSpawned == "PTY not spawned"
SpawnError == "spawn failed"
NoCall == [op |-> "none", error |-> NoError]
Call(op, error) == [op |-> op, error |-> error]

(* --------------------------- token service ---------------------------- *)
\* a string is the sequence of its characters
DigitChars == <<"0", "1", "2", "3", "4", "5", "6", "7", "8", "9">>

IsDigit(ch) == \E i \in 1..10 : DigitChars[i] = ch

DigitValue(ch) == (CHOOSE i \in 1..10 : DigitChars[i] = ch) - 1

\* `${n}` for an integer n >= 0
RECURSIVE NumberToString(_)
NumberToString(n) ==
    IF n < 10 THEN <<DigitChars[n + 1]>>
    ELSE Append(NumberToString(n \div 10), DigitChars[(n % 10) + 1])

\* parseInt(str, 10): the value of the leading digits of str; NaN without any

RECURSIVE LeadingDigits(_)
LeadingDigits(str) ==
    IF str # << >> /\ IsDigit(Head(str)) THEN <<Head(str)>> \o LeadingDigits(Tail(str)) ELSE << >>

RECURSIVE DigitsValue(_)
DigitsValue(ds) ==
    IF ds = << >> THEN 0 ELSE 10 * DigitsValue(SubSeq(ds, 1, Len(ds) - 1)) + DigitValue(ds[Len(ds)])

parseInt(str) ==
    [isNaN |-> LeadingDigits(str) = << >>, value |-> DigitsValue(LeadingDigits(str))]

\* token.split(':')
RECURSIVE Split(_)
Split(str) ==
    IF \A i \in 1..Len(str) : str[i] # ":" THEN <<str>>
    ELSE LET i == CHOOSE k \in 1..Len(str) : str[k] = ":" /\ \A j \in 1..(k - 1) : str[j] # ":"
         IN  <<SubSeq(str, 1, i - 1)>> \o Split(SubSeq(str, i + 1, Len(str)))

\* lastCheck before any call of validateToken
NoCheck == [token |-> << >>, at |-> 0, result |-> FALSE]

\* the secret of the server and the secret of somebody else
Secret == "b"
OtherSecret == "c"

(* createSignature: the hex digest of HMAC-SHA256 keyed by the secret.  The *)
(* digest of a different payload, or under a different key, is a different  *)
(* string (no collisions): the digest is modelled by the key followed by    *)
(* the payload, its ':' written as the hex digit a.                         *)
HexOf(ch) == IF IsDigit(ch) THEN ch ELSE IF ch = ":" THEN "a" ELSE "f"

createSignature(secret, payload) ==
    <<secret>> \o [i \in 1..Len(payload) |-> HexOf(payload[i])]

\* generateToken at the instant timestamp
TokenFor(secret, timestamp, expiresAt) ==
    LET payload == NumberToString(timestamp) \o <<":">> \o NumberToString(expiresAt)
    IN  payload \o <<":">> \o createSignature(secret, payload)

generateToken(timestamp) ==
    LET expiresAt == timestamp + tokenExpiry * 1000
    IN  [token |-> TokenFor(Secret, timestamp, expiresAt), expiresAt |-> expiresAt]

\* Date.now() > expiryTime, false when expiryTime is NaN
Expired_early(t, expiryTime) == ~expiryTime.isNaN /\ t >= expiryTime.value

Expired(t, expiryTime) == ~expiryTime.isNaN /\ t > expiryTime.value

\* validateToken at the instant t (the try block never throws on a string)
validateToken_unsigned(token, t) ==
    LET parts == Split(token)
    IN  /\ Len(parts) = 3
        /\ ~Expired(t, parseInt(parts[2]))

validateToken(token, t) ==
    LET parts == Split(token)
    IN  /\ Len(parts) = 3
        /\ parts[3] = createSignature(Secret, parts[1] \o <<":">> \o parts[2])
        /\ ~Expired(t, parseInt(parts[2]))

(* ------------------------------- Init --------------------------------- *)
Init ==
    /\ now = 0
    /\ heartbeatInterval = TRUE
    /\ ws = [c \in Conn |-> "NONE"]
    /\ sessions = << >>
    /\ procState = [p \in Proc |-> "none"]
    /\ procOwner = [p \in Proc |-> 0]
    /\ killCount = [p \in Proc |-> 0]
    /\ ptyInput = [p \in Proc |-> << >>]
    /\ ptySize = [p \in Proc |-> <<0, 0>>]
    /\ outputBuffer = [p \in Proc |-> << >>]
    /\ flushTimeout = [p \in Proc |-> FALSE]
    /\ timers = [p \in Proc |-> 0]
    /\ emitted = [p \in Proc |-> << >>]
    /\ sent = [c \in Conn |-> << >>]
    /\ writes = << >>
    /\ nInputs = 0
    /\ lastMsg = NoDelivery
    /\ issued = {}
    /\ lastCheck = NoCheck
    /\ pinged = {}
    /\ lastCall = NoCall

(* ------------------------- transport events --------------------------- *)
\* handleConnection: a transport that passed the upgrade is registered
\* (transports are numbered in the order they connect)
handleConnection(c) ==
    /\ heartbeatInterval
    /\ ws[c] = "NONE"
    /\ \A b \in Conn : b < c => ws[b] # "NONE"
    /\ ws' = [ws EXCEPT ![c] = "OPEN"]
    /\ sessions' = [x \in DOMAIN sessions \cup {c} |-> IF x = c THEN NewSession ELSE sessions[x]]
    /\ UNCHANGED <<timeVars, procVars, sent, writes, nInputs>>
    /\ lastMsg' = NoDelivery
    /\ UNCHANGED <<authVars, pinged, lastCall>>

\* ws.on('pong')
Pong_ignored(c) ==
    /\ ws[c] \in {"OPEN", "CLOSING"}
    /\ UNCHANGED <<timeVars, ws, sessions, procVars, sent, writes, nInputs>>
    /\ lastMsg' = NoDelivery
    /\ UNCHANGED <<authVars, pinged, lastCall>>

Pong(c) ==
    /\ ws[c] \in {"OPEN", "CLOSING"}
    /\ sessions' = IF c \in DOMAIN sessions
                   THEN [sessions EXCEPT ![c].isAlive = TRUE]
                   ELSE sessions
    /\ UNCHANGED <<timeVars, ws, procVars, sent, writes, nInputs>>
    /\ lastMsg' = NoDelivery
    /\ UNCHANGED <<authVars, pinged, lastCall>>

\* the peer's close frame arrives: the transport is CLOSING until its socket ends
PeerClosing(c) ==
    /\ ws[c] = "OPEN"
    /\ ws' = [ws EXCEPT ![c] = "CLOSING"]
    /\ UNCHANGED <<timeVars, sessions, procVars, sent, writes, nInputs>>
    /\ lastMsg' = NoDelivery
    /\ UNCHANGED <<authVars, pinged, lastCall>>

\* handleClose: kill the pty and drop the session, when there is one
handleClose_keep(c) ==
    /\ killCount' = IF c \in DOMAIN sessions THEN kill(killCount, sessions[c]) ELSE killCount
    /\ sessions' = sessions

handleClose(c) ==
    /\ killCount' = IF c \in DOMAIN sessions THEN kill(killCount, sessions[c]) ELSE killCount
    /\ sessions' = IF c \in DOMAIN sessions THEN Remove(sessions, c) ELSE sessions

\* ws.on('close'): emitted once, when the socket has closed
CloseEvent(c) ==
    /\ ws[c] \in {"OPEN", "CLOSING"}
    /\ ws' = [ws EXCEPT ![c] = "CLOSED"]
    /\ handleClose(c)
    /\ UNCHANGED <<timeVars, procState, procOwner, ptyInput, ptySize, outputBuffer,
                   flushTimeout, timers, emitted, sent, writes, nInputs>>
    /\ lastMsg' = NoDelivery
    /\ UNCHANGED <<authVars, pinged, lastCall>>

\* ws.on('error') -> handleError -> handleClose; the close event follows
handleError(c) ==
    /\ ws[c] \in {"OPEN", "CLOSING"}
    /\ ws' = [ws EXCEPT ![c] = "CLOSING"]
    /\ handleClose(c)
    /\ UNCHANGED <<timeVars, procState, procOwner, ptyInput, ptySize, outputBuffer,
                   flushTimeout, timers, emitted, sent, writes, nInputs>>
    /\ lastMsg' = NoDelivery
    /\ UNCHANGED <<authVars, pinged, lastCall>>

(* --------------------------- shell events ----------------------------- *)
\* flush of the coalescer of process p, on the buffer contents buf
flush(p, buf) ==
    /\ sent' = IF buf # << >> THEN send(sent, ws, procOwner[p], OutputMsg(buf)) ELSE sent
    /\ outputBuffer' = [outputBuffer EXCEPT ![p] = << >>]
    /\ flushTimeout' = [flushTimeout EXCEPT ![p] = FALSE]

\* clearTimeout(flushTimeout), when flushTimeout holds a timer
Cleared(handle, pending) == IF handle THEN pending - 1 ELSE pending

\* else if (!flushTimeout) flushTimeout = setTimeout(flush, 5)
Scheduled_always(handle, pending) == pending + 1

Scheduled(handle, pending) == IF handle THEN pending ELSE pending + 1

\* the onData callback of handleAuth, for a chunk of n characters
onData(p, n) ==
    /\ procState[p] = "running"
    /\ nInputs < MaxInputs
    /\ nInputs' = nInputs + 1
    /\ LET chunk == [p |-> p, k |-> Len(emitted[p]) + 1, size |-> n]
           buf == Buffered(outputBuffer[p], chunk)
       IN  /\ emitted' = [emitted EXCEPT ![p] = Append(@, chunk)]
           /\ IF BufferIsLarge(buf)
              THEN /\ flush(p, buf)
                   /\ timers' = [timers EXCEPT ![p] = Cleared(flushTimeout[p], @)]
              ELSE /\ outputBuffer' = [outputBuffer EXCEPT ![p] = buf]
                   /\ flushTimeout' = [flushTimeout EXCEPT ![p] = TRUE]
                   /\ timers' = [timers EXCEPT ![p] = Scheduled(flushTimeout[p], @)]
                   /\ sent' = sent
    /\ UNCHANGED <<timeVars, ws, sessions, procState, procOwner, killCount, ptyInput,
                   ptySize, writes>>
    /\ lastMsg' = NoDelivery
    /\ UNCHANGED <<authVars, pinged, lastCall>>

\* setTimeout(flush, 5) fires
FlushTimer(p) ==
    /\ timers[p] > 0
    /\ timers' = [timers EXCEPT ![p] = @ - 1]
    /\ flush(p, outputBuffer[p])
    /\ UNCHANGED <<timeVars, ws, sessions, procState, procOwner, killCount, ptyInput,
                   ptySize, emitted, writes, nInputs>>
    /\ lastMsg' = NoDelivery
    /\ UNCHANGED <<authVars, pinged, lastCall>>

\* the onExit callback of handleAuth: the shell has exited, ws.close()
onExit(p) ==
    /\ procState[p] = "running"
    /\ procState' = [procState EXCEPT ![p] = "exited"]
    /\ ws' = wsClose(ws, procOwner[p])
    /\ UNCHANGED <<timeVars, sessions, procOwner, killCount, ptyInput, ptySize,
                   outputBuffer, flushTimeout, timers, emitted, sent, writes, nInputs>>
    /\ lastMsg' = NoDelivery
    /\ UNCHANGED <<authVars, pinged, lastCall>>

(* ------------------------ timers and shutdown ------------------------- *)
\* the sessions the interval callback calls ws.ping() on: those it does not
\* return from with ws.terminate()
Probed_all(registered, ghosts) == registered

Probed(registered, ghosts) == registered \ ghosts

\* the setInterval callback of the constructor (every 30000 ms)
HeartbeatTick ==
    /\ heartbeatInterval
    /\ LET ghosts == {c \in DOMAIN sessions : sessions[c].isAlive = FALSE}
       IN  /\ ws' = [c \in Conn |-> IF c \in ghosts THEN wsTerminate(ws, c)[c] ELSE ws[c]]
           /\ sessions' = [c \in DOMAIN sessions |->
                              IF c \in ghosts THEN sessions[c]
                              ELSE [sessions[c] EXCEPT !.isAlive = FALSE]]
           /\ pinged' = Probed(DOMAIN sessions, ghosts)
    /\ UNCHANGED <<now, heartbeatInterval, procVars, sent, writes, nInputs>>
    /\ lastMsg' = NoDelivery
    /\ UNCHANGED <<authVars, lastCall>>

\* cleanup(), called by the SIGTERM / SIGINT handler
RECURSIVE killAll(_, _)
killAll(kc, cs) ==
    IF cs = {} THEN kc
    ELSE LET c == CHOOSE x \in cs : TRUE
         IN  killAll(kill(kc, sessions[c]), cs \ {c})

cleanup ==
    /\ heartbeatInterval' = FALSE
    /\ killCount' = killAll(killCount, DOMAIN sessions)
    /\ ws' = [c \in Conn |-> IF c \in DOMAIN sessions THEN wsClose(ws, c)[c] ELSE ws[c]]
    /\ sessions' = << >>
    /\ UNCHANGED <<now, procState, procOwner, ptyInput, ptySize, outputBuffer,
                   flushTimeout, timers, emitted, sent, writes, nInputs>>
    /\ lastMsg' = NoDelivery
    /\ UNCHANGED <<authVars, pinged, lastCall>>

\* time passes
Advance(t) ==
    /\ t > now
    /\ now' = t
    /\ UNCHANGED <<heartbeatInterval, ws, sessions, procVars, sent, writes,
                   nInputs>>
    /\ lastMsg' = NoDelivery
    /\ UNCHANGED <<authVars, pinged, lastCall>>

(* -------------------------- inbound frames ---------------------------- *)
Stored(c, session) == [sessions EXCEPT ![c] = session]

\* sendError(ws, text); return
reply_andClose(c, session, text) ==
    /\ sessions' = Stored(c, session)
    /\ sent' = sendError(sent, ws, c, text)
    /\ ws' = wsClose(ws, c)
    /\ UNCHANGED <<procState, procOwner, ptyInput, ptySize, writes>>

reply(c, session, text) ==
    /\ sessions' = Stored(c, session)
    /\ sent' = sendError(sent, ws, c, text)
    /\ UNCHANGED <<ws, procState, procOwner, ptyInput, ptySize, writes>>

\* a message no case of routeMessage acts on
ignore(c, session) ==
    /\ sessions' = Stored(c, session)
    /\ UNCHANGED <<ws, sent, procState, procOwner, ptyInput, ptySize, writes>>

\* handleAuth: pty.spawn succeeds with a new process, or throws
handleAuth_revert(c, session) ==
    \/ /\ FreePids # {}
       /\ LET p == NextPid
          IN  /\ sessions' = Stored(c, [session EXCEPT !.authenticated = TRUE, !.ptyProcess = p])
              /\ procState' = [procState EXCEPT ![p] = "running"]
              /\ procOwner' = [procOwner EXCEPT ![p] = c]
              /\ ptySize' = [ptySize EXCEPT ![p] = <<100, 30>>]
              /\ sent' = send(sent, ws, c, ReadyMsg)
              /\ UNCHANGED <<ws, ptyInput, writes>>
    \/ /\ sessions' = Stored(c, [session EXCEPT !.authenticated = FALSE])
       /\ sent' = sendError(sent, ws, c, "Failed to spawn shell")
       /\ ws' = wsClose(ws, c)
       /\ UNCHANGED <<procState, procOwner, ptyInput, ptySize, writes>>

handleAuth_noReady(c, session) ==
    \/ /\ FreePids # {}
       /\ LET p == NextPid
          IN  /\ sessions' = Stored(c, [session EXCEPT !.authenticated = TRUE, !.ptyProcess = p])
              /\ procState' = [procState EXCEPT ![p] = "running"]
              /\ procOwner' = [procOwner EXCEPT ![p] = c]
              /\ ptySize' = [ptySize EXCEPT ![p] = <<100, 30>>]
              /\ UNCHANGED <<ws, sent, ptyInput, writes>>
    \/ /\ sessions' = Stored(c, [session EXCEPT !.authenticated = TRUE])
       /\ sent' = sendError(sent, ws, c, "Failed to spawn shell")
       /\ ws' = wsClose(ws, c)
       /\ UNCHANGED <<procState, procOwner, ptyInput, ptySize, writes>>

handleAuth(c, session) ==
    \/ /\ FreePids # {}
       /\ LET p == NextPid
          IN  /\ sessions' = Stored(c, [session EXCEPT !.authenticated = TRUE, !.ptyProcess = p])
              /\ procState' = [procState EXCEPT ![p] = "running"]
              /\ procOwner' = [procOwner EXCEPT ![p] = c]
              /\ ptySize' = [ptySize EXCEPT ![p] = <<100, 30>>]
              /\ sent' = send(sent, ws, c, ReadyMsg)
              /\ UNCHANGED <<ws, ptyInput, writes>>
    \/ /\ sessions' = Stored(c, [session EXCEPT !.authenticated = TRUE])
       /\ sent' = sendError(sent, ws, c, "Failed to spawn shell")
       /\ ws' = wsClose(ws, c)
       /\ UNCHANGED <<procState, procOwner, ptyInput, ptySize, writes>>

\* handleInput: pty.write throws (swallowed) when nothing was spawned
handleInput_broadcast(c, session, data) ==
    /\ sessions' = Stored(c, session)
    /\ ptyInput' = [p \in Proc |-> IF procState[p] # "none"
                                   THEN Append(ptyInput[p], data) ELSE ptyInput[p]]
    /\ UNCHANGED <<ws, sent, procState, procOwner, ptySize, writes>>

handleInput(c, session, data) ==
    /\ sessions' = Stored(c, session)
    /\ ptyInput' = IF session.ptyProcess # 0
                   THEN [ptyInput EXCEPT ![session.ptyProcess] = Append(@, data)]
                   ELSE ptyInput
    /\ UNCHANGED <<ws, sent, procState, procOwner, ptySize, writes>>

\* handleResize: pty.resize throws when nothing was spawned, and swallows
\* the failure of resizing a process that has exited
handleResize(c, session, cols, rows) ==
    /\ sessions' = Stored(c, session)
    /\ ptySize' = IF session.ptyProcess # 0 /\ procState[session.ptyProcess] = "running"
                  THEN [ptySize EXCEPT ![session.ptyProcess] = <<cols, rows>>]
                  ELSE ptySize
    /\ UNCHANGED <<ws, sent, procState, procOwner, ptyInput, writes>>

\* handleFileUpload
handleFileUpload_silent(c, session, msg) ==
    /\ sessions' = Stored(c, session)
    /\ UNCHANGED <<ws, procState, procOwner, ptyInput, ptySize, sent>>
    /\ writes' = Append(writes, [path |-> Resolve(Cwd, Basename(msg.filename)),
                                 data |-> IF msg.isBuffer THEN msg.bytes ELSE Base64Decode(msg.data)])

handleFileUpload(c, session, msg) ==
    /\ sessions' = Stored(c, session)
    /\ UNCHANGED <<ws, procState, procOwner, ptyInput, ptySize>>
    /\ IF msg.filename = <<Undefined>>
       THEN \* path.basename(undefined) throws
            /\ sent' = sendError(sent, ws, c, "Upload failed")
            /\ writes' = writes
       ELSE LET safePath == Resolve(Cwd, Basename(msg.filename))
                buffer == IF msg.isBuffer THEN msg.bytes ELSE Base64Decode(msg.data)
            IN  IF ~StartsWith(safePath, Cwd)
                THEN /\ sent' = sendError(sent, ws, c, "Invalid path")
                     /\ writes' = writes
                ELSE IF (~msg.isBuffer /\ msg.data = Undefined) \/ safePath = Cwd
                THEN \* Buffer.from(undefined) throws; writing a directory throws
                     /\ sent' = sendError(sent, ws, c, "Upload failed")
                     /\ writes' = writes
                ELSE \/ /\ writes' = Append(writes, [path |-> safePath, data |-> buffer])
                        /\ sent' = send(sent, ws, c, UploadDoneMsg(msg.filename))
                     \/ \* fs.writeFileSync throws
                        /\ sent' = sendError(sent, ws, c, "Upload failed")
                        /\ writes' = writes

\* routeMessage
routeMessage_validating(c, session, msg) ==
    IF msg.type = AUTH
    THEN IF validateToken(msg.token, now) THEN handleAuth(c, session) ELSE ignore(c, session)
    ELSE IF msg.type = INPUT /\ Authenticated(session) THEN handleInput(c, session, msg.data)
    ELSE IF msg.type = RESIZE /\ Authenticated(session) THEN handleResize(c, session, msg.cols, msg.rows)
    ELSE IF msg.type = FILE_UPLOAD /\ Authenticated(session) THEN handleFileUpload(c, session, msg)
    ELSE ignore(c, session)

routeMessage(c, session, msg) ==
    IF msg.type = AUTH THEN handleAuth(c, session)
    ELSE IF msg.type = INPUT /\ Authenticated(session) THEN handleInput(c, session, msg.data)
    ELSE IF msg.type = RESIZE /\ Authenticated(session) THEN handleResize(c, session, msg.cols, msg.rows)
    ELSE IF msg.type = FILE_UPLOAD /\ Authenticated(session) THEN handleFileUpload(c, session, msg)
    ELSE ignore(c, session)

\* the session after the rate-limiting bookkeeping of handleMessage
Counted(session) ==
    LET elapsed == WindowElapsed(now, session.lastMinute)
    IN  [session EXCEPT !.messageCount = (IF elapsed THEN 0 ELSE @) + 1,
                        !.lastMinute = IF elapsed THEN now ELSE @]

\* ws.on('message')
handleMessage(c, f) ==
    /\ ws[c] \in {"OPEN", "CLOSING"}
    /\ nInputs < MaxInputs
    /\ nInputs' = nInputs + 1
    /\ lastMsg' = [c |-> c, frame |-> f]
    /\ UNCHANGED <<authVars, pinged, lastCall>>
    /\ UNCHANGED <<timeVars, killCount, outputBuffer, flushTimeout, timers, emitted>>
    /\ IF c \notin DOMAIN sessions
       THEN UNCHANGED <<sessions, ws, sent, procState, procOwner, ptyInput, ptySize, writes>>
       ELSE LET session == Counted(sessions[c])
            IN  IF RateExceeded(session.messageCount)
                THEN reply(c, session, "Rate limit exceeded")
                ELSE IF TooLarge(f.size)
                THEN reply(c, session, "Message too large")
                ELSE IF Decode(f).threw
                THEN reply(c, session, "Invalid message protocol")
                ELSE routeMessage(c, session, Decode(f).msg)

(* ------------------------ the pty adapter, called directly ------------ *)
\* what every direct call of the adapter of session c leaves alone
AdapterFrame(c) ==
    /\ c \in DOMAIN sessions
    /\ nInputs < MaxInputs
    /\ nInputs' = nInputs + 1
    /\ lastMsg' = NoDelivery
    /\ UNCHANGED <<timeVars, ws, procOwner, outputBuffer, flushTimeout, timers, emitted, sent,
                   writes, authVars, pinged>>

\* PTYManager.spawn: pty.spawn returns a new process, or throws and the
\* error is rethrown
PTYManager_spawn(c) ==
    /\ AdapterFrame(c)
    /\ \/ /\ FreePids # {}
          /\ sessions' = [sessions EXCEPT ![c].ptyProcess = NextPid]
          /\ procState' = [procState EXCEPT ![NextPid] = "running"]
          /\ ptySize' = [ptySize EXCEPT ![NextPid] = <<80, 24>>]
          /\ lastCall' = Call("spawn", NoError)
       \/ /\ lastCall' = Call("spawn", SpawnError)
          /\ UNCHANGED <<sessions, procState, ptySize>>
    /\ UNCHANGED <<killCount, ptyInput>>

\* PTYManager.write
PTYManager_write_silent(c, data) ==
    /\ AdapterFrame(c)
    /\ LET p == sessions[c].ptyProcess
       IN  /\ lastCall' = Call("write", NoError)
           /\ ptyInput' = IF p = 0 THEN ptyInput ELSE [ptyInput EXCEPT ![p] = Append(@, data)]
    /\ UNCHANGED <<sessions, procState, killCount, ptySize>>

PTYManager_write(c, data) ==
    /\ AdapterFrame(c)
    /\ LET p == sessions[c].ptyProcess
       IN  IF p = 0
           THEN /\ lastCall' = Call("write", NotSpawned)
                /\ ptyInput' = ptyInput
           ELSE /\ lastCall' = Call("write", NoError)
                /\ ptyInput' = [ptyInput EXCEPT ![p] = Append(@, data)]
    /\ UNCHANGED <<sessions, procState, killCount, ptySize>>

\* PTYManager.resize: the failure of resizing a dead process is swallowed
PTYManager_resize(c, cols, rows) ==
    /\ AdapterFrame(c)
    /\ LET p == sessions[c].ptyProcess
       IN  IF p = 0
           THEN /\ lastCall' = Call("resize", NotSpawned)
                /\ ptySize' = ptySize
           ELSE /\ lastCall' = Call("resize", NoError)
                /\ ptySize' = IF procState[p] = "running"
                              THEN [ptySize EXCEPT ![p] = <<cols, rows>>]
                              ELSE ptySize
    /\ UNCHANGED <<sessions, procState, killCount, ptyInput>>

\* PTYManager.onData and PTYManager.onExit: register a callback
Register(c, op) ==
    /\ AdapterFrame(c)
    /\ lastCall' = Call(op, IF sessions[c].ptyProcess = 0 THEN NotSpawned ELSE NoError)
    /\ UNCHANGED <<sessions, procState, killCount, ptyInput, ptySize>>

PTYManager_onData(c) == Register(c, "onData")

PTYManager_onExit(c) == Register(c, "onExit")

\* PTYManager.kill: the handle is cleared when ptyProcess.kill returns; when
\* it throws the error is logged and the handle keeps the process
PTYManager_kill(c) ==
    /\ AdapterFrame(c)
    /\ lastCall' = Call("kill", NoError)
    /\ killCount' = kill(killCount, sessions[c])
    /\ \/ sessions' = [sessions EXCEPT ![c].ptyProcess = 0]
       \/ sessions[c].ptyProcess # 0 /\ sessions' = sessions
    /\ UNCHANGED <<procState, ptyInput, ptySize>>

\* a shell no callback is registered on exits
ShellExit(p) ==
    /\ procState[p] = "running"
    /\ procState' = [procState EXCEPT ![p] = "exited"]
    /\ UNCHANGED <<timeVars, ws, sessions, procOwner, killCount, ptyInput, ptySize,
                   outputBuffer, flushTimeout, timers, emitted, sent, writes, nInputs>>
    /\ lastMsg' = NoDelivery
    /\ UNCHANGED <<authVars, pinged, lastCall>>

(* --------------------------- token service events --------------------- *)
\* authService.generateToken()
Issue ==
    /\ Cardinality(issued) < MaxTokens
    /\ issued' = issued \cup {generateToken(now)}
    /\ UNCHANGED <<timeVars, ws, sessions, procVars, sent, writes, nInputs, pinged, lastCall, lastCheck>>
    /\ lastMsg' = NoDelivery

\* authService.validateToken(token)
Validate(token) ==
    /\ lastCheck' = [token |-> token, at |-> now, result |-> validateToken(token, now)]
    /\ UNCHANGED <<timeVars, ws, sessions, procVars, sent, writes, nInputs, pinged, lastCall, issued>>
    /\ lastMsg' = NoDelivery

\* the token query parameter of an upgrade request: absent, or a string
NoToken == [present |-> FALSE, value |-> << >>]
Param(str) == [present |-> TRUE, value |-> str]

\* server.on('upgrade'): 401 and socket.destroy(), or handleUpgrade and
\* handleConnection
upgrade_open(c, q) == handleConnection(c)

upgrade(c, q) ==
    IF ~q.present \/ q.value = << >>
    THEN /\ ws[c] = "NONE"
         /\ \A b \in Conn : b < c => ws[b] # "NONE"
         /\ ws' = [ws EXCEPT ![c] = "REJECTED"]
         /\ UNCHANGED <<timeVars, sessions, procVars, sent, writes, nInputs, pinged, lastCall, authVars>>
         /\ lastMsg' = NoDelivery
    ELSE /\ lastCheck' = [token |-> q.value, at |-> now, result |-> validateToken(q.value, now)]
         /\ issued' = issued
         /\ IF validateToken(q.value, now)
            THEN /\ heartbeatInterval
                 /\ ws[c] = "NONE"
                 /\ \A b \in Conn : b < c => ws[b] # "NONE"
                 /\ ws' = [ws EXCEPT ![c] = "OPEN"]
                 /\ sessions' = [x \in DOMAIN sessions \cup {c} |->
                                    IF x = c THEN NewSession ELSE sessions[x]]
                 /\ UNCHANGED <<timeVars, procVars, sent, writes, nInputs, pinged, lastCall>>
                 /\ lastMsg' = NoDelivery
            ELSE /\ ws[c] = "NONE"
                 /\ \A b \in Conn : b < c => ws[b] # "NONE"
                 /\ ws' = [ws EXCEPT ![c] = "REJECTED"]
                 /\ UNCHANGED <<timeVars, sessions, procVars, sent, writes, nInputs, pinged, lastCall>>
                 /\ lastMsg' = NoDelivery

(* ------------------------------- Next --------------------------------- *)
Next ==
    \/ \E c \in Conn : handleConnection(c)
    \/ \E c \in Conn, f \in Frames : handleMessage(c, f)
    \/ \E c \in Conn : Pong(c)
    \/ \E c \in Conn : PeerClosing(c)
    \/ \E c \in Conn : CloseEvent(c)
    \/ \E c \in Conn : handleError(c)
    \/ \E p \in Proc, n \in ChunkSizes : onData(p, n)
    \/ \E p \in Proc : FlushTimer(p)
    \/ \E p \in Proc : onExit(p)
    \/ HeartbeatTick
    \/ cleanup
    \/ \E t \in TimePoints : Advance(t)

Spec == Init /\ [][Next]_vars

(* The specifications below are Spec with the environment narrowed: the   *)
(* handlers are the same, the events the environment raises are fewer.    *)
One == {1}

(* One session and its router: every case of handleMessage and the clock, *)
(* with shells that print nothing, between two heartbeats.                *)
NextRouter ==
    \/ \E c \in One : handleConnection(c)
    \/ \E c \in One, f \in RouterFrames : handleMessage(c, f)
    \/ \E c \in One : PeerClosing(c)
    \/ \E c \in One : CloseEvent(c)
    \/ \E c \in One : handleError(c)
    \/ \E p \in Proc : onExit(p)
    \/ \E t \in {60000} : Advance(t)

SpecRouter == Init /\ [][NextRouter]_vars

(* The sessions' lives: every way a session is closed, the heartbeat and  *)
(* the shutdown, at one instant of the clock, with shells that print      *)
(* nothing.                                                               *)
NextLifecycle ==
    \/ \E c \in Conn : handleConnection(c)
    \/ \E c \in Conn, f \in LifecycleFrames : handleMessage(c, f)
    \/ \E c \in Conn : Pong(c)
    \/ \E c \in Conn : PeerClosing(c)
    \/ \E c \in Conn : CloseEvent(c)
    \/ \E c \in Conn : handleError(c)
    \/ \E p \in Proc : onExit(p)
    \/ HeartbeatTick
    \/ cleanup

SpecLifecycle == Init /\ [][NextLifecycle]_vars

(* One session and its output path: shells that emit chunks, at one       *)
(* instant of the clock and between two heartbeats.                       *)
NextOutput ==
    \/ \E c \in One : handleConnection(c)
    \/ \E c \in One, f \in OutputFrames : handleMessage(c, f)
    \/ \E c \in One : PeerClosing(c)
    \/ \E c \in One : CloseEvent(c)
    \/ \E p \in Proc, n \in ChunkSizes : onData(p, n)
    \/ \E p \in Proc : FlushTimer(p)
    \/ \E p \in Proc : onExit(p)

SpecOutput == Init /\ [][NextOutput]_vars

(* One session and its uploads: every shape of file name, in a text frame  *)
(* and in a binary frame, at one instant of the clock.                     *)
UploadFrames ==
    { Auth("tok") }
    \cup { Upload(f) : f \in FileNames }
    \cup { TextFrame(SmallSize, "obj", [NoMsg EXCEPT !.type = FILE_UPLOAD, !.filename = <<"a.txt">>]),
           BinaryFrame(8, 3, <<"{", "f", "}", "x">>) }

NextUpload ==
    \/ \E c \in One : handleConnection(c)
    \/ \E c \in One, f \in UploadFrames : handleMessage(c, f)
    \/ \E c \in One : PeerClosing(c)
    \/ \E c \in One : CloseEvent(c)
    \/ \E p \in Proc : onExit(p)

SpecUpload == Init /\ [][NextUpload]_vars

(* One session and the heartbeat: a peer that answers the probes or stays  *)
(* silent, the shell exit, the transport error and the shutdown.  The      *)
(* close event of a transport that is closing is eventually emitted.       *)
NextHeartbeat ==
    \/ \E c \in One : handleConnection(c)
    \/ \E c \in One, f \in LifecycleFrames : handleMessage(c, f)
    \/ \E c \in One : Pong(c)
    \/ \E c \in One : CloseEvent(c)
    \/ \E c \in One : handleError(c)
    \/ \E p \in Proc : onExit(p)
    \/ HeartbeatTick
    \/ cleanup

SpecHeartbeat ==
    Init /\ [][NextHeartbeat]_vars /\ \A c \in One : WF_vars(CloseEvent(c))

(* The decoder and the router's default case on one transport: frames     *)
(* that do not decode, binary frames whose header length is wrong, and     *)
(* messages whose type the router has no case for.                         *)
Typed(t) == TextFrame(SmallSize, "obj", [NoMsg EXCEPT !.type = t])

UndecodableFrames ==
    { TextFrame(SmallSize, "bad", NoMsg),
      TextFrame(SmallSize, "null", NoMsg),
      BinaryFrame(2, 0, << >>),
      BinaryFrame(6, 2, <<"x", "x">>),
      BinaryFrame(5, 1, <<"n">>) }

OvershootFrames ==
    { BinaryFrame(7, 100, <<"{", "f", "}">>),
      BinaryFrame(6, 100, <<"{", "f">>) }

UnroutedFrames == { Typed(t) : t \in {"bogus", Undefined, OUTPUT, READY, ERROR, FILE_DOWNLOAD} }

DecodeFrames == { Auth("tok") } \cup UndecodableFrames \cup OvershootFrames \cup UnroutedFrames

NextDecode ==
    \/ \E c \in One : handleConnection(c)
    \/ \E c \in One, f \in DecodeFrames : handleMessage(c, f)
    \/ \E c \in One : PeerClosing(c)
    \/ \E c \in One : CloseEvent(c)
    \/ \E p \in Proc : onExit(p)

SpecDecode == Init /\ [][NextDecode]_vars

(* Frames that do not decode, on several transports whose shells print.    *)
IsolationFrames == { Auth("tok") } \cup UndecodableFrames

NextIsolation ==
    \/ \E c \in Conn : handleConnection(c)
    \/ \E c \in Conn, f \in IsolationFrames : handleMessage(c, f)
    \/ \E c \in Conn : CloseEvent(c)
    \/ \E p \in Proc : onData(p, 1)

SpecIsolation == Init /\ [][NextIsolation]_vars

(* The token service and the upgrade handler: tokens are issued, time      *)
(* passes across their expiry, and genuine, altered and forged tokens are  *)
(* validated and presented on upgrade requests.                            *)
AuthTimes == { 0, 1, tokenExpiry * 1000, tokenExpiry * 1000 + 1 }

\* the characters a token is altered with
Alphabet == {"0", "1", ":", "a", "x"}

\* the strings that differ from token in exactly one position
Altered(token) ==
    { [token EXCEPT ![i] = ch] : i \in 1..Len(token), ch \in Alphabet } \ {token}

\* a token signed with another secret for the current hour
Forged == TokenFor(OtherSecret, 0, 2 * tokenExpiry * 1000)

Candidates ==
    { r.token : r \in issued }
    \cup UNION { Altered(r.token) : r \in issued }
    \cup { Forged, <<"x">>, <<"0", ":", "1">> }

\* the token parameters of upgrade requests: none, empty, a genuine token,
\* a genuine token with its last character altered, a forged token
UpgradeParams ==
    { NoToken, Param(<< >>), Param(Forged) }
    \cup { Param(r.token) : r \in issued }
    \cup { Param([r.token EXCEPT ![Len(r.token)] = "x"]) : r \in issued }

NextAuth ==
    \/ Issue
    \/ \E token \in Candidates : Validate(token)
    \/ \E t \in AuthTimes : Advance(t)

SpecAuth == Init /\ [][NextAuth]_vars

NextUpgrade ==
    \/ Issue
    \/ \E c \in Conn, q \in UpgradeParams : upgrade(c, q)
    \/ \E c \in Conn : CloseEvent(c)
    \/ \E t \in AuthTimes : Advance(t)

SpecUpgrade == Init /\ [][NextUpgrade]_vars

(* One session from authentication to teardown: a shell that prints and    *)
(* exits, every way the session is closed, and a second rate window.  The  *)
(* close event of a transport that is closing is eventually emitted.       *)
NextTeardown ==
    \/ \E c \in One : handleConnection(c)
    \/ \E c \in One, f \in LifecycleFrames : handleMessage(c, f)
    \/ \E c \in One : CloseEvent(c)
    \/ \E c \in One : handleError(c)
    \/ \E p \in Proc : onData(p, 1)
    \/ \E p \in Proc : FlushTimer(p)
    \/ \E p \in Proc : onExit(p)
    \/ HeartbeatTick
    \/ cleanup
    \/ \E t \in {60000} : Advance(t)

SpecTeardown ==
    Init /\ [][NextTeardown]_vars /\ \A c \in One : WF_vars(CloseEvent(c))

(* AUTH messages on a transport accepted by the upgrade handler: their     *)
(* token field is empty, garbage, forged, or the token of the upgrade, at  *)
(* any time before or after its expiry.                                    *)
MessageTokens == { << >>, <<"x">>, Forged } \cup { r.token : r \in issued }

NextAuthMessage ==
    \/ Issue
    \/ \E c \in One, q \in UpgradeParams : upgrade(c, q)
    \/ \E c \in One, t \in MessageTokens : handleMessage(c, Auth(t))
    \/ \E c \in One : CloseEvent(c)
    \/ \E t \in AuthTimes : Advance(t)

SpecAuthMessage == Init /\ [][NextAuthMessage]_vars

(* Keyboard input on two transports, across two rate windows.              *)
InputFrames == { Auth("tok"), Input("a"), Input("b") }

NextInput ==
    \/ \E c \in Conn : handleConnection(c)
    \/ \E c \in Conn, f \in InputFrames : handleMessage(c, f)
    \/ \E c \in Conn : CloseEvent(c)
    \/ \E t \in {60000} : Advance(t)

SpecInput == Init /\ [][NextInput]_vars

(* The pty adapter of one session called directly, in any order, on a      *)
(* shell that may exit at any time.                                        *)
NextAdapter ==
    \/ \E c \in One : handleConnection(c)
    \/ \E c \in One : PTYManager_spawn(c)
    \/ \E c \in One, d \in {"a", "b"} : PTYManager_write(c, d)
    \/ \E c \in One : PTYManager_resize(c, 120, 40)
    \/ \E c \in One : PTYManager_onData(c)
    \/ \E c \in One : PTYManager_onExit(c)
    \/ \E c \in One : PTYManager_kill(c)
    \/ \E p \in Proc : ShellExit(p)

SpecAdapter == Init /\ [][NextAdapter]_vars

(* The rate window around the minute: one session receiving messages just  *)
(* before, exactly at and just after one minute from the window's start.   *)
WindowTimes == {WindowMs - 1, WindowMs, WindowMs + 1}

NextWindow ==
    \/ \E c \in One : handleConnection(c)
    \/ \E c \in One, f \in LifecycleFrames : handleMessage(c, f)
    \/ \E c \in One : CloseEvent(c)
    \/ \E t \in WindowTimes : Advance(t)

SpecWindow == Init /\ [][NextWindow]_vars

TypeOK ==
    /\ now \in TimePoints \cup AuthTimes
    /\ ws \in [Conn -> {"NONE", "REJECTED", "OPEN", "CLOSING", "CLOSED"}]
    /\ DOMAIN sessions \subseteq Conn
    /\ nInputs \in 0..MaxInputs

(* ============================ properties ============================== *)
\* the processes spawned for the session of transport c
SpawnedFor(c) == {p \in Proc : procState[p] # "none" /\ procOwner[p] = c}

\* the state of the session of transport c, as the data model names it
SessionStateOf(c) ==
    IF c \in DOMAIN sessions
    THEN IF sessions[c].authenticated THEN "AUTHENTICATED" ELSE "UNAUTHENTICATED"
    ELSE IF ws[c] \in {"NONE", "REJECTED"} THEN "NONE" ELSE "CLOSED"

\* this step delivers a frame to the registered session of transport c
Delivers(c) == lastMsg'.c = c /\ c \in DOMAIN sessions

(* C1: at most one pty process is ever spawned for a session; a later AUTH *)
(* on the same session spawns no second process.                           *)
C1_AtMostOneSpawn == \A c \in Conn : Cardinality(SpawnedFor(c)) <= 1

(* C2: once a session has left the registry every process spawned for it   *)
(* has had kill invoked on it, and kill is never invoked twice on one      *)
(* process.                                                                *)
C2_KilledExactlyOnce ==
    /\ \A p \in Proc : killCount[p] <= 1
    /\ \A c \in Conn : c \notin DOMAIN sessions => \A p \in SpawnedFor(c) : killCount[p] = 1

(* C4: a session's state only moves forward: an authenticated session      *)
(* stays authenticated until it is closed, and a closed session stays      *)
(* closed.                                                                 *)
C4_StateMonotonic ==
    [][\A c \in Conn :
          /\ SessionStateOf(c) = "AUTHENTICATED" => SessionStateOf(c)' \in {"AUTHENTICATED", "CLOSED"}
          /\ SessionStateOf(c) = "CLOSED" => SessionStateOf(c)' = "CLOSED"
          /\ SessionStateOf(c) = "UNAUTHENTICATED" => SessionStateOf(c)' # "NONE"]_vars

\* a session that was authenticated, had a shell, and is closed
C4_Witness ==
    \E c \in Conn : SessionStateOf(c) = "CLOSED" /\ SpawnedFor(c) # {}

(* --------------------- limits and the router (C3, C8-C10) -------------- *)
\* the count the rate limiter reaches with the frame being delivered to c
WindowCount(c) ==
    (IF now - sessions[c].lastMinute >= WindowMs THEN 0 ELSE sessions[c].messageCount) + 1

\* a frame that carries an INPUT, RESIZE or FILE_UPLOAD message
IsDataMessage(f) ==
    \/ ~f.isBinary /\ f.json = "obj" /\ f.obj.type \in {INPUT, RESIZE, FILE_UPLOAD}
    \/ f.isBinary /\ ~Decode(f).threw

\* the step sent nothing to c and had no effect on a pty, a file or the
\* authentication state of c
Quiet(c) ==
    /\ sent'[c] = sent[c]
    /\ ptyInput' = ptyInput
    /\ ptySize' = ptySize
    /\ procState' = procState
    /\ writes' = writes
    /\ c \in DOMAIN sessions'
    /\ sessions'[c].authenticated = sessions[c].authenticated

\* C3 as stated: while a session is unauthenticated, every INPUT, RESIZE or
\* FILE_UPLOAD message it receives is ignored with no message sent and no
\* side effect.
C3_Original ==
    [][\A c \in Conn :
         Delivers(c) /\ ~sessions[c].authenticated /\ IsDataMessage(lastMsg'.frame)
         => Quiet(c)]_vars

\* C3: while a session is unauthenticated, every INPUT, RESIZE or FILE_UPLOAD
\* message that is within the rate limit and the size limit is ignored with
\* no message sent and no side effect.
C3_UnauthenticatedIgnores ==
    [][\A c \in Conn :
         /\ Delivers(c) /\ ~sessions[c].authenticated /\ IsDataMessage(lastMsg'.frame)
         /\ WindowCount(c) <= rateLimit
         /\ lastMsg'.frame.size <= maxMessageSize
         => Quiet(c)]_vars

\* an unauthenticated session on an open transport has just been delivered
\* an upload within both limits
C3_Witness ==
    /\ lastMsg.c \in DOMAIN sessions
    /\ ~sessions[lastMsg.c].authenticated
    /\ ws[lastMsg.c] = "OPEN"
    /\ lastMsg.frame.obj.type = FILE_UPLOAD
    /\ sessions[lastMsg.c].messageCount <= rateLimit
    /\ lastMsg.frame.size <= maxMessageSize

\* nothing was decoded or routed: no authentication, no spawn, no pty write
\* or resize, no file write
NotRouted(c) ==
    /\ c \in DOMAIN sessions'
    /\ sessions'[c].authenticated = sessions[c].authenticated
    /\ sessions'[c].ptyProcess = sessions[c].ptyProcess
    /\ procState' = procState
    /\ procOwner' = procOwner
    /\ ptyInput' = ptyInput
    /\ ptySize' = ptySize
    /\ writes' = writes

\* exactly one ERROR frame with this text goes to an open transport
Answered(c, text) == ws[c] = "OPEN" => sent'[c] = Append(sent[c], ErrorMsg(text))

RateError == ErrorMsg("Rate limit exceeded")

\* C8: within one rate window the first rateLimit messages of a session are
\* processed (an AUTH authenticates, an INPUT reaches the pty), the next one
\* is answered with an ERROR and neither decoded nor routed; a message that
\* arrives once the window has elapsed counts as the first of a new window.
C8_RateWindow ==
    [][\A c \in Conn : Delivers(c) =>
         /\ sessions'[c].messageCount = WindowCount(c)
         /\ WindowCount(c) <= rateLimit =>
              /\ sent'[c] # Append(sent[c], RateError)
              /\ lastMsg'.frame = Auth("tok") => sessions'[c].authenticated
              /\ lastMsg'.frame \in {Input("a"), Input("b")} /\ sessions[c].ptyProcess # 0
                 => ptyInput'[sessions[c].ptyProcess]
                      = Append(ptyInput[sessions[c].ptyProcess], lastMsg'.frame.obj.data)
         /\ WindowCount(c) > rateLimit =>
              /\ Answered(c, "Rate limit exceeded")
              /\ NotRouted(c)]_vars

\* a session was refused a message, the window elapsed, and the message
\* delivered after that was accepted as the first of the new window
C8_Witness ==
    \E c \in DOMAIN sessions :
        /\ \E i \in 1..Len(sent[c]) : sent[c][i] = RateError
        /\ sessions[c].lastMinute = WindowMs
        /\ sessions[c].messageCount = 1
        /\ lastMsg.c = c
        /\ sent[c][Len(sent[c])] # RateError

\* C9: a frame refused for the rate limit or for its size leaves the session
\* registered with the same authentication state, kills no pty and does not
\* close the transport.
C9_LimitsKeepSession ==
    [][\A c \in Conn :
         Delivers(c) /\ (WindowCount(c) > rateLimit \/ lastMsg'.frame.size > maxMessageSize)
         => /\ c \in DOMAIN sessions'
            /\ sessions'[c].authenticated = sessions[c].authenticated
            /\ sessions'[c].ptyProcess = sessions[c].ptyProcess
            /\ killCount' = killCount
            /\ procState' = procState
            /\ ws'[c] = ws[c]]_vars

\* an authenticated session with a running shell on an open transport has
\* just been refused a message for the rate limit
C9_Witness ==
    \E c \in DOMAIN sessions :
        /\ lastMsg.c = c
        /\ sessions[c].messageCount > rateLimit
        /\ sessions[c].authenticated
        /\ sessions[c].ptyProcess # 0
        /\ procState[sessions[c].ptyProcess] = "running"
        /\ ws[c] = "OPEN"
        /\ sent[c][Len(sent[c])] = RateError

\* C10: a frame larger than maxMessageSize is answered with one ERROR and is
\* neither decoded nor routed, whether or not the session is authenticated.
C10_OversizeDropped ==
    [][\A c \in Conn :
         Delivers(c) /\ lastMsg'.frame.size > maxMessageSize
         => /\ ws[c] = "OPEN" =>
                 /\ Len(sent'[c]) = Len(sent[c]) + 1
                 /\ sent'[c][Len(sent'[c])].type = ERROR
            /\ WindowCount(c) <= rateLimit => Answered(c, "Message too large")
            /\ NotRouted(c)]_vars

\* an oversize INPUT to an authenticated session with a running shell was
\* answered 'Message too large'
C10_Witness ==
    \E c \in DOMAIN sessions :
        /\ lastMsg.c = c
        /\ lastMsg.frame = Sized(Input("a"), maxMessageSize + 1)
        /\ sessions[c].authenticated
        /\ sessions[c].ptyProcess # 0
        /\ procState[sessions[c].ptyProcess] = "running"
        /\ sent[c] # << >>
        /\ sent[c][Len(sent[c])] = ErrorMsg("Message too large")

(* ----------------------- output coalescing (C5-C7) --------------------- *)
\* a frame the coalescer of process p sent: an OUTPUT frame carrying chunks of p
FromCoalescer(p, m) == m.type = OUTPUT /\ m.data # << >> /\ m.data[1].p = p

\* the concatenated data of the frames in log that the coalescer of p sent
RECURSIVE DataOf(_, _)
DataOf(p, log) ==
    IF log = << >> THEN << >>
    ELSE (IF FromCoalescer(p, Head(log)) THEN Head(log).data ELSE << >>) \o DataOf(p, Tail(log))

\* the chunks of em that no frame of log carries yet
Undelivered(p, em, log) == SubSeq(em, Len(DataOf(p, log)) + 1, Len(em))

\* the shell p emits a chunk in this step / the flush timer of p fires
DataStep(p) == emitted'[p] # emitted[p]
TimerStep(p) == flushTimeout[p] /\ ~flushTimeout'[p] /\ emitted'[p] = emitted[p]

IsOpen(p) == procState[p] # "none" /\ ws[procOwner[p]] = "OPEN"

\* C5: chunks that total under 8 KiB and arrive before the flush timer fires
\* send nothing when they arrive and leave the timer pending; when the timer
\* fires they go out as exactly one OUTPUT frame, concatenated in the order
\* the shell emitted them (on an open transport).
C5_BurstIsOneFrame ==
    [][\A p \in Proc : IsOpen(p) =>
         LET c == procOwner[p]
             burst == Undelivered(p, emitted'[p], sent[c])
         IN  /\ DataStep(p) /\ StrLen(burst) < HighWaterMark
                => sent' = sent /\ flushTimeout'[p]
             /\ TimerStep(p) /\ StrLen(burst) < HighWaterMark
                => /\ burst # << >>
                   /\ sent'[c] = Append(sent[c], OutputMsg(burst))
                   /\ outputBuffer'[p] = << >>]_vars

\* a burst of two chunks under 8 KiB has gone out as the last frame, in order
C5_Witness ==
    \E p \in Proc :
        /\ IsOpen(p)
        /\ sent[procOwner[p]] # << >>
        /\ LET m == sent[procOwner[p]][Len(sent[procOwner[p]])]
           IN  /\ FromCoalescer(p, m)
               /\ Len(m.data) >= 2
               /\ StrLen(m.data) < HighWaterMark
        /\ ~flushTimeout[p]

\* C6 as stated: a chunk that brings the buffer to 8192 or more is flushed in
\* the same event as one OUTPUT frame and no delayed flush stays pending.
C6_Original ==
    [][\A p \in Proc : IsOpen(p) =>
         LET c == procOwner[p]
             buf == Undelivered(p, emitted'[p], sent[c])
         IN  DataStep(p) /\ StrLen(buf) >= HighWaterMark
             => /\ sent'[c] = Append(sent[c], OutputMsg(buf))
                /\ ~flushTimeout'[p]
                /\ outputBuffer'[p] = << >>]_vars

\* C6: a chunk that brings the buffer above 8192 is flushed in the same event
\* as one OUTPUT frame and no delayed flush stays pending; a buffer of exactly
\* 8192 waits for the timer (on an open transport).
C6_HighWaterFlush ==
    [][\A p \in Proc : IsOpen(p) =>
         LET c == procOwner[p]
             buf == Undelivered(p, emitted'[p], sent[c])
         IN  /\ DataStep(p) /\ StrLen(buf) > HighWaterMark
                => /\ sent'[c] = Append(sent[c], OutputMsg(buf))
                   /\ ~flushTimeout'[p]
                   /\ outputBuffer'[p] = << >>
             /\ DataStep(p) /\ StrLen(buf) = HighWaterMark
                => sent' = sent /\ flushTimeout'[p]]_vars

\* a chunk has pushed a buffer that held an earlier chunk, with its timer
\* pending, over the mark: both went out together and the timer is cancelled
C6_Witness ==
    \E p \in Proc :
        /\ IsOpen(p)
        /\ sent[procOwner[p]] # << >>
        /\ LET m == sent[procOwner[p]][Len(sent[procOwner[p]])]
           IN  /\ FromCoalescer(p, m)
               /\ Len(m.data) >= 2
               /\ StrLen(m.data) > HighWaterMark
               /\ m.data[Len(m.data)] = emitted[p][Len(emitted[p])]
        /\ ~flushTimeout[p]
        /\ outputBuffer[p] = << >>

\* C7: while the transport of a session is open, the data of the OUTPUT
\* frames its coalescer has sent, followed by the contents of the output
\* buffer, is exactly what the shell has emitted, in order.
C7_StreamPreserved ==
    \A p \in Proc :
        IsOpen(p) => DataOf(p, sent[procOwner[p]]) \o outputBuffer[p] = emitted[p]

\* part of the stream has been sent and a later part is still buffered
C7_Witness ==
    \E p \in Proc :
        /\ IsOpen(p)
        /\ DataOf(p, sent[procOwner[p]]) # << >>
        /\ outputBuffer[p] # << >>
        /\ Len(emitted[p]) >= 3

(* ----------------------------- uploads (C11-C13) ---------------------- *)
\* the FILE_UPLOAD message a frame carries (NoMsg when it carries none)
UploadOf(f) ==
    IF f.isBinary THEN Decode(f).msg
    ELSE IF f.json = "obj" /\ f.obj.type = FILE_UPLOAD THEN f.obj ELSE NoMsg

\* this step hands an upload to handleFileUpload of the session of c
UploadStep(c) ==
    /\ Delivers(c)
    /\ sessions[c].authenticated
    /\ WindowCount(c) <= rateLimit
    /\ lastMsg'.frame.size <= maxMessageSize
    /\ UploadOf(lastMsg'.frame).type = FILE_UPLOAD

\* a file name with a directory-traversal component
HasTraversal(name) == \E i \in 1..Len(name) : name[i] = ".."

\* C11: an upload to an authenticated session whose file name contains a
\* directory-traversal component is answered with an ERROR and writes no file.
C11_TraversalRejected ==
    [][\A c \in Conn :
         UploadStep(c) /\ HasTraversal(UploadOf(lastMsg'.frame).filename)
         => /\ writes' = writes
            /\ ws[c] = "OPEN" => /\ Len(sent'[c]) = Len(sent[c]) + 1
                                 /\ sent'[c][Len(sent'[c])].type = ERROR]_vars

\* the last non-empty '/'-separated segment of a file name ("" when none)
LastSegment(name) ==
    LET idx == {i \in 1..Len(name) : name[i] # ""}
    IN  IF idx = {} THEN "" ELSE name[CHOOSE i \in idx : \A j \in idx : j <= i]

\* a path directly under the working directory
StrictlyInside(path) ==
    /\ Len(path) = Len(Cwd) + 1
    /\ SubSeq(path, 1, Len(Cwd)) = Cwd
    /\ path[Len(path)] \notin {"", ".", ".."}

\* C12: whatever the declared file name, every file the server writes lies
\* strictly inside the working directory, and the write an upload causes is
\* named by the basename of its declared file name.
C12_WritesInsideCwd ==
    [][/\ \A i \in 1..Len(writes') : StrictlyInside(writes'[i].path)
       /\ writes' # writes =>
            \E c \in Conn :
                /\ UploadStep(c)
                /\ Len(writes') = Len(writes) + 1
                /\ SubSeq(writes', 1, Len(writes)) = writes
                /\ writes'[Len(writes')].path
                     = Append(Cwd, LastSegment(UploadOf(lastMsg'.frame).filename))]_vars

\* an upload whose name has '..' components, is absolute or ends with a
\* separator has produced a write
C12_Witness ==
    /\ Len(writes) >= 1
    /\ lastMsg.frame \in { Upload(<<"..", "..", "etc", "passwd">>),
                           Upload(<<"", "etc", "passwd">>),
                           Upload(<<"dir", "">>) }
    /\ writes[Len(writes)].path \in { <<"srv", "app", "passwd">>, <<"srv", "app", "dir">> }

\* the bytes an upload frame carries: the base64 text of a text frame
\* decoded, or the bytes after the header of a binary frame
PayloadOf(f) ==
    IF f.isBinary
    THEN SubSeq(f.rest, f.headerLength + 1, Len(f.rest))
    ELSE IF f.obj.data = "ZGF0YQ==" THEN <<"d", "a", "t", "a">> ELSE << >>

\* an upload frame with the normal file name a.txt and a payload
NormalUploads == { Upload(<<"a.txt">>), BinaryFrame(8, 3, <<"{", "f", "}", "x">>) }

\* C13: an upload with a normal file name to an authenticated session on an
\* open transport either writes the payload once and then sends one success
\* OUTPUT, or (the write fails) writes nothing and sends one ERROR; in both
\* cases the session is not closed.
C13_NormalUpload ==
    [][\A c \in Conn :
         UploadStep(c) /\ ws[c] = "OPEN" /\ lastMsg'.frame \in NormalUploads
         => /\ \/ /\ writes' = Append(writes, [path |-> <<"srv", "app", "a.txt">>,
                                               data |-> PayloadOf(lastMsg'.frame)])
                  /\ sent'[c] = Append(sent[c], UploadDoneMsg(<<"a.txt">>))
               \/ /\ writes' = writes
                  /\ sent'[c] = Append(sent[c], ErrorMsg("Upload failed"))
            /\ ws'[c] = "OPEN"
            /\ c \in DOMAIN sessions'
            /\ sessions'[c].authenticated
            /\ killCount' = killCount
            /\ procState' = procState]_vars

\* a binary upload was written once, with the bytes after its header, and
\* acknowledged
C13_Witness ==
    \E c \in DOMAIN sessions :
        /\ lastMsg.c = c
        /\ lastMsg.frame = BinaryFrame(8, 3, <<"{", "f", "}", "x">>)
        /\ ws[c] = "OPEN"
        /\ writes = <<[path |-> <<"srv", "app", "a.txt">>, data |-> <<"x">>]>>
        /\ Len(sent[c]) >= 2
        /\ sent[c][Len(sent[c])] = UploadDoneMsg(<<"a.txt">>)

(* ------------------------------ heartbeat (C14) ----------------------- *)
\* the session of c has been probed and has not answered since
Unanswered(c) == c \in DOMAIN sessions /\ sessions[c].isAlive = FALSE

\* C14: a session that has not answered the probe of one tick is terminated
\* at the next tick; a terminated transport leads to the session leaving the
\* registry; and the step that removes a session invokes kill on its pty
\* process, which had not been killed before, exactly once.
C14_GhostTerminated ==
    /\ [][\A c \in Conn :
            /\ HeartbeatTick /\ Unanswered(c)
               => /\ ws'[c] \in {"CLOSING", "CLOSED"}
                  /\ c \in DOMAIN sessions'
            /\ c \in DOMAIN sessions /\ c \notin DOMAIN sessions' /\ sessions[c].ptyProcess # 0
               => /\ killCount[sessions[c].ptyProcess] = 0
                  /\ killCount'[sessions[c].ptyProcess] = 1]_vars
    /\ \A c \in Conn : (c \in DOMAIN sessions /\ ws[c] = "CLOSING") ~> (c \notin DOMAIN sessions)

\* an authenticated session whose shells all run was probed, stayed silent
\* and has been terminated by the tick that followed; the timer is still armed
C14_Witness ==
    \E c \in DOMAIN sessions :
        /\ Unanswered(c)
        /\ ws[c] = "CLOSING"
        /\ heartbeatInterval
        /\ sessions[c].authenticated
        /\ sessions[c].ptyProcess # 0
        /\ \A p \in SpawnedFor(c) : procState[p] = "running"

(* ----------------------- decoding and routing (C15-C17) --------------- *)
\* this step takes a frame of the session of c past the rate and size checks
Accepted(c) ==
    /\ Delivers(c)
    /\ WindowCount(c) <= rateLimit
    /\ lastMsg'.frame.size <= maxMessageSize

\* a binary frame whose stated header length exceeds the bytes that follow
\* the 4-byte length field
Overshoots(f) == f.isBinary /\ f.len >= 4 /\ f.headerLength > f.len - 4

\* C15: a binary frame whose stated header length exceeds the bytes left in
\* the frame is answered with a protocol ERROR, is not turned into a
\* FILE_UPLOAD and writes no file.
C15_OvershootRejected ==
    [][\A c \in Conn :
         Accepted(c) /\ Overshoots(lastMsg'.frame)
         => /\ Answered(c, "Invalid message protocol")
            /\ writes' = writes]_vars

\* a message whose type the router has no case for
Unrouted(f) ==
    /\ ~f.isBinary
    /\ f.json = "obj"
    /\ f.obj.type \notin {AUTH, INPUT, RESIZE, FILE_UPLOAD}

\* C16: a well-formed message whose type the router does not handle is
\* answered with an ERROR, and the connection stays open.
C16_UnknownTypeReported ==
    [][\A c \in Conn :
         Accepted(c) /\ Unrouted(lastMsg'.frame) /\ ws[c] = "OPEN"
         => /\ Len(sent'[c]) = Len(sent[c]) + 1
            /\ sent'[c][Len(sent'[c])].type = ERROR
            /\ ws'[c] = "OPEN"]_vars

\* a frame that does not decode: a text that is not the JSON of an object,
\* a binary frame shorter than its length field, a header that is not the
\* JSON of an object
Undecodable(f) ==
    \/ ~f.isBinary /\ f.json \in {"bad", "null"}
    \/ f.isBinary /\ f.len < 4
    \/ f.isBinary /\ f.len >= 4 /\ ~Overshoots(f)
         /\ SubSeq(f.rest, 1, f.headerLength) \notin {<<"{", "f", "}">>, <<"{", "}">>}

\* C17: a frame that does not decode yields exactly one ERROR to its sender
\* and nothing else: the sender's transport, authentication state and pty are
\* unchanged, and no other session, pty, output buffer or transport changes.
C17_DecodeFailureIsolated ==
    [][\A c \in Conn :
         Accepted(c) /\ Undecodable(lastMsg'.frame)
         => /\ Answered(c, "Invalid message protocol")
            /\ ws[c] # "OPEN" => sent'[c] = sent[c]
            /\ NotRouted(c)
            /\ sessions'[c].isAlive = sessions[c].isAlive
            /\ ws' = ws
            /\ DOMAIN sessions' = DOMAIN sessions
            /\ \A d \in DOMAIN sessions \ {c} : sessions'[d] = sessions[d]
            /\ \A d \in Conn \ {c} : sent'[d] = sent[d]
            /\ killCount' = killCount
            /\ outputBuffer' = outputBuffer
            /\ flushTimeout' = flushTimeout]_vars

\* an authenticated session was answered for a frame that does not decode
\* while another session is registered and authenticated
C17_Witness ==
    \E c \in DOMAIN sessions, d \in DOMAIN sessions :
        /\ c # d
        /\ lastMsg.c = c
        /\ Undecodable(lastMsg.frame)
        /\ sessions[c].authenticated
        /\ sessions[d].authenticated
        /\ ws[c] = "OPEN"
        /\ sent[c][Len(sent[c])] = ErrorMsg("Invalid message protocol")

(* --------------------------- tokens (C18-C20) ------------------------- *)
\* token was issued by this server and has not expired at the instant t
GenuineAt(token, t) == \E r \in issued : r.token = token /\ t <= r.expiresAt

\* C18: a session is created only by an upgrade request whose token was
\* issued by the token service and has not expired; a request without a
\* token, or with an invalid or expired token, is answered 401 and its
\* connection never appears in the registry.
C18_SessionNeedsValidToken ==
    [][\A c \in Conn :
         /\ c \notin DOMAIN sessions /\ c \in DOMAIN sessions'
            => /\ lastCheck'.at = now
               /\ lastCheck'.result
               /\ GenuineAt(lastCheck'.token, now)
               /\ ws[c] = "NONE"
         /\ ws[c] = "REJECTED" => ws'[c] = "REJECTED" /\ c \notin DOMAIN sessions'
         /\ ws[c] = "NONE" /\ ws'[c] # "NONE" /\ ~GenuineAt(lastCheck'.token, now)
            => ws'[c] = "REJECTED"]_vars

\* one request was accepted with a token that later, expired, was refused on
\* another request
C18_Witness ==
    \E c \in DOMAIN sessions, d \in Conn :
        /\ ws[d] = "REJECTED"
        /\ \E r \in issued : r.token = lastCheck.token /\ lastCheck.at > r.expiresAt
        /\ ~lastCheck.result

\* C19: a token issued with ttl tokenExpiry expires tokenExpiry seconds after
\* its issuance, and validateToken accepts it at every instant up to and
\* including its expiry instant and refuses it at every later instant.
C19_ValidUntilExpiry ==
    \A r \in issued :
        /\ r.expiresAt = parseInt(Split(r.token)[1]).value + tokenExpiry * 1000
        /\ lastCheck.token = r.token => (lastCheck.result <=> lastCheck.at <= r.expiresAt)

\* a token was validated exactly at its expiry instant and accepted
C19_Witness ==
    \E r \in issued :
        /\ lastCheck.token = r.token
        /\ lastCheck.at = r.expiresAt
        /\ lastCheck.result

\* the positions at which two strings of the same length differ
DiffersAt(a, b) == {i \in 1..Len(a) : a[i] # b[i]}

\* C20: a token that differs from an issued token in exactly one character
\* is refused by validateToken, wherever the character is.
C20_AlteredTokenRefused ==
    \A r \in issued :
        Len(lastCheck.token) = Len(r.token) /\ Cardinality(DiffersAt(lastCheck.token, r.token)) = 1
        => ~lastCheck.result

\* an unexpired token with one character of its expiresAt field altered to a
\* later instant was refused
C20_Witness ==
    \E r \in issued :
        /\ Len(lastCheck.token) = Len(r.token)
        /\ Cardinality(DiffersAt(lastCheck.token, r.token)) = 1
        /\ Split(lastCheck.token)[1] = Split(r.token)[1]
        /\ Len(Split(lastCheck.token)) = 3
        /\ Split(lastCheck.token)[3] = Split(r.token)[3]
        /\ parseInt(Split(lastCheck.token)[2]).value > r.expiresAt
        /\ lastCheck.at <= r.expiresAt
        /\ ~lastCheck.result

(* ----------------------------- teardown (C21-C24) --------------------- *)
\* the spawn of an AUTH of the session of c has failed
SpawnFailed(c) == \E i \in 1..Len(sent[c]) : sent[c][i] = ErrorMsg("Failed to spawn shell")

\* this step handles an AUTH of the session of c whose spawn throws
SpawnFailsStep(c) ==
    /\ Accepted(c)
    /\ ~lastMsg'.frame.isBinary /\ lastMsg'.frame.json = "obj" /\ lastMsg'.frame.obj.type = AUTH
    /\ procState' = procState

\* a process that is neither killed nor exited
Alive(p) == procState[p] = "running" /\ killCount[p] = 0

\* the sender of an AUTH whose spawn fails gets an ERROR and the server
\* starts closing its transport
C21_ErrorThenClose ==
    [][\A c \in Conn : SpawnFailsStep(c) =>
         /\ Answered(c, "Failed to spawn shell")
         /\ ws'[c] # "OPEN"
         /\ c \in DOMAIN sessions']_vars

\* a session whose spawn failed is eventually removed from the registry
C21_EventuallyRemoved ==
    \A c \in Conn : (c \in DOMAIN sessions /\ SpawnFailed(c)) ~> (c \notin DOMAIN sessions)

\* once it is removed no process spawned for it is left alive
C21_NoneLeftAlive ==
    [](\A c \in Conn : SpawnFailed(c) /\ c \notin DOMAIN sessions
                       => \A p \in SpawnedFor(c) : ~Alive(p))

\* C21: when the spawn triggered by an AUTH fails, the sender receives an
\* ERROR and the server starts closing the transport; the session is
\* eventually removed from the registry, and then no pty process spawned for
\* it is left alive.
C21_SpawnFailureCloses ==
    /\ C21_ErrorThenClose
    /\ C21_EventuallyRemoved
    /\ C21_NoneLeftAlive

\* the session that owns process p is registered
OwnerRegistered(p) == procOwner[p] \in DOMAIN sessions

\* the exit of a shell starts the close of the owning transport
C22_ExitStartsClose ==
    [][\A p \in Proc : onExit(p) /\ OwnerRegistered(p) => ws'[procOwner[p]] # "OPEN"]_vars

\* no session stays registered forever after its shell has exited
C22_ExitedLeadsToRemoved ==
    \A p \in Proc : (procState[p] = "exited" /\ OwnerRegistered(p)) ~> ~OwnerRegistered(p)

\* C22: whenever the shell process of an authenticated session exits, the
\* server starts closing the owning transport and, the transport's close
\* event being eventually delivered, the session is eventually removed from
\* the registry.
C22_DeadShellEndsSession ==
    /\ C22_ExitStartsClose
    /\ C22_ExitedLeadsToRemoved

\* a shell has exited and its session, still registered and answering the
\* heartbeat, has a closing transport and was sent no spawn failure
C22_Witness ==
    \E p \in Proc :
        /\ procState[p] = "exited"
        /\ OwnerRegistered(p)
        /\ sessions[procOwner[p]].ptyProcess = p
        /\ sessions[procOwner[p]].isAlive
        /\ ~SpawnFailed(procOwner[p])
        /\ ws[procOwner[p]] = "CLOSING"

\* the processes pty.spawn has created
Spawned == {p \in Proc : procState[p] # "none"}

\* cleanup closes every registered transport, empties the registry and
\* clears the heartbeat interval, which never fires afterwards
C23_TransportsAndTimer ==
    /\ [][cleanup => /\ \A c \in DOMAIN sessions : ws'[c] # "OPEN"
                     /\ DOMAIN sessions' = {}
                     /\ ~heartbeatInterval']_vars
    /\ [][~heartbeatInterval => ~HeartbeatTick /\ ~heartbeatInterval']_vars

\* cleanup invokes kill on the process each registered handle holds
C23_HeldProcessesKilled ==
    [][cleanup => \A c \in DOMAIN sessions :
                     sessions[c].ptyProcess # 0 => killCount'[sessions[c].ptyProcess] >= 1]_vars

\* after cleanup kill has been invoked on every process ever spawned
C23_NoOrphan ==
    [][cleanup => \A p \in Spawned : killCount'[p] >= 1]_vars

\* C23: after cleanup, whatever the states of the sessions, kill has been
\* invoked on every pty process that was ever spawned, every registered
\* transport has been closed, the registry is empty and the heartbeat timer
\* no longer fires.
C23_ShutdownLeavesNothing ==
    /\ C23_TransportsAndTimer
    /\ C23_HeldProcessesKilled
    /\ C23_NoOrphan

\* the coalescer of process p holds neither a pending timer nor buffered output
Released(p) == ~flushTimeout[p] /\ outputBuffer[p] = << >>

\* C24: closing a session cancels its pending coalescer flush timer: once the
\* session is removed from the registry (transport close or error, heartbeat
\* termination, shutdown) the buffer and the timer of its coalescer are
\* released and the flush callback never runs.
C24_CloseCancelsFlush ==
    /\ [](\A p \in Spawned : ~OwnerRegistered(p) => Released(p))
    /\ [][\A p \in Proc : FlushTimer(p) => OwnerRegistered(p)]_vars

(* --------------------------- rate window (C25) ------------------------ *)
\* the time since the start of the window of c, when a message arrives
Elapsed(c) == now - sessions[c].lastMinute

\* the window of c restarts from now and the message is counted as its first
Restarted(c) ==
    /\ sessions'[c].messageCount = 1
    /\ sessions'[c].lastMinute = now

\* the message is counted in the running window of c
Continued(c) ==
    /\ sessions'[c].messageCount = sessions[c].messageCount + 1
    /\ sessions'[c].lastMinute = sessions[c].lastMinute

\* a step that delivers no message to c leaves the window of c alone
OnlyMessagesCount ==
    \A c \in DOMAIN sessions \cap DOMAIN sessions' :
        ~Delivers(c) => /\ sessions'[c].messageCount = sessions[c].messageCount
                        /\ sessions'[c].lastMinute = sessions[c].lastMinute

\* C25 as stated: the window restarts when the time elapsed since its start
\* exceeds one minute, and otherwise neither the count nor the start is reset.
C25_Original ==
    [][/\ \A c \in Conn : Delivers(c) =>
              /\ Elapsed(c) > WindowMs => Restarted(c)
              /\ Elapsed(c) <= WindowMs => Continued(c)
       /\ OnlyMessagesCount]_vars

\* C25: on each inbound message, if the time elapsed since the window's start
\* is at least one minute the count is reset and the window restarts from now
\* before the message is counted; otherwise neither the count nor the window
\* start is reset; nothing else resets the count.
C25_FixedWindow ==
    [][/\ \A c \in Conn : Delivers(c) =>
              /\ Elapsed(c) >= WindowMs => Restarted(c)
              /\ Elapsed(c) < WindowMs => Continued(c)
       /\ OnlyMessagesCount]_vars

\* a session created at time 0 received a message, and the message that
\* arrived exactly one minute after the window's start restarted the window
C25_Witness ==
    \E c \in DOMAIN sessions :
        /\ now = WindowMs
        /\ nInputs >= 2
        /\ lastMsg.c = c
        /\ sessions[c].lastMinute = WindowMs
        /\ sessions[c].messageCount = 1

(* --------------------------- heartbeat (C26, C27) --------------------- *)
\* C26: on the tick where the supervisor finds the liveness flag of a session
\* false it terminates the transport, sends no message on it and does not
\* call ping on it.
C26_SilentTermination ==
    [][\A c \in Conn : HeartbeatTick /\ Unanswered(c) =>
         /\ ws'[c] # "OPEN"
         /\ sent'[c] = sent[c]
         /\ c \notin pinged']_vars

\* a session was probed, did not answer, and the next tick terminated its
\* open transport without probing it; nothing was ever sent to it
C26_Witness ==
    \E c \in DOMAIN sessions :
        /\ Unanswered(c)
        /\ ws[c] = "CLOSING"
        /\ c \notin pinged
        /\ sent[c] = << >>
        /\ procState = [p \in Proc |-> "none"]
        /\ heartbeatInterval

\* the liveness flag of c goes from true to false in this step
FlagCleared(c) ==
    /\ c \in DOMAIN sessions /\ c \in DOMAIN sessions'
    /\ sessions[c].isAlive /\ ~sessions'[c].isAlive

\* C27: the liveness flag is true at construction, is set false only by a
\* tick that probes the session, and is set true by each acknowledgment; a
\* tick terminates no session whose flag is true, so a peer that acknowledges
\* every probe before the next tick is never terminated by the supervisor.
C27_ResponsiveNeverTerminated ==
    [][\A c \in Conn :
         /\ c \notin DOMAIN sessions /\ c \in DOMAIN sessions' => sessions'[c].isAlive
         /\ FlagCleared(c) => HeartbeatTick /\ c \in pinged'
         /\ Pong(c) /\ c \in DOMAIN sessions => sessions'[c].isAlive
         /\ HeartbeatTick /\ c \in DOMAIN sessions /\ sessions[c].isAlive
            => /\ ws'[c] = ws[c]
               /\ c \in DOMAIN sessions']_vars

\* a session with an open transport was probed by the last tick and its peer
\* has acknowledged the probe
C27_Witness ==
    \E c \in DOMAIN sessions :
        /\ c \in pinged
        /\ sessions[c].isAlive
        /\ ws[c] = "OPEN"
        /\ heartbeatInterval

(* --------------------------- pty adapter (C28, C29) ------------------- *)
\* the handle of session c holds no process: never spawned, or killed
NoProcess(c) == c \in DOMAIN sessions /\ ~PTYManager_isAlive(sessions[c])

\* the shell the handle of session c holds has exited
HoldsExited(c) ==
    /\ c \in DOMAIN sessions
    /\ PTYManager_isAlive(sessions[c])
    /\ procState[sessions[c].ptyProcess] = "exited"

\* kill on a handle that was never spawned or was already killed raises no
\* error and invokes no process kill
C28_NullHandleNoop ==
    [][\A c \in Conn : PTYManager_kill(c) /\ NoProcess(c) =>
         /\ lastCall'.error = NoError
         /\ killCount' = killCount
         /\ NoProcess(c)']_vars

\* kill on a handle whose shell has exited raises no error and invokes no
\* process kill
C28_ExitedNoop ==
    [][\A c \in Conn : PTYManager_kill(c) /\ HoldsExited(c) =>
         /\ lastCall'.error = NoError
         /\ killCount' = killCount]_vars

\* C28: kill on the pty adapter is idempotent: on a handle that was never
\* spawned, was already killed, or whose shell has already exited it raises
\* no error and does not invoke the underlying process kill; a kill that
\* leaves isAlive() true has changed nothing in the handle.
C28_KillIdempotent ==
    /\ C28_NullHandleNoop
    /\ C28_ExitedNoop
    /\ [][\A c \in Conn : PTYManager_kill(c) /\ PTYManager_isAlive(sessions'[c])
            => sessions'[c] = sessions[c]]_vars

\* this step is a direct call of write, resize, onData or onExit on the
\* adapter of session c
UsesProcess(c) ==
    \/ \E d \in {"a", "b"} : PTYManager_write(c, d)
    \/ PTYManager_resize(c, 120, 40)
    \/ PTYManager_onData(c)
    \/ PTYManager_onExit(c)

\* this step creates a process
Creates == \E p \in Proc : procState[p] = "none" /\ procState'[p] # "none"

\* C29: write, resize, onData and onExit called while the handle holds no
\* process (before a successful spawn, or after kill has cleared the handle)
\* fail with 'PTY not spawned', create no process and leave the handle empty;
\* the only operation that creates a pty process is spawn.
C29_NotSpawnedFails ==
    [][/\ \A c \in Conn : UsesProcess(c) /\ NoProcess(c) =>
              /\ lastCall'.error = NotSpawned
              /\ ~Creates
              /\ NoProcess(c)'
              /\ ptyInput' = ptyInput /\ ptySize' = ptySize
       /\ Creates => \E c \in Conn : PTYManager_spawn(c)]_vars

\* a shell was spawned and killed, and the write that followed the kill
\* failed with 'PTY not spawned'
C29_Witness ==
    \E c \in DOMAIN sessions :
        /\ NoProcess(c)
        /\ procState[1] = "running" /\ killCount[1] = 1
        /\ procState[2] = "none"
        /\ lastCall = Call("write", NotSpawned)

(* --------------------------- keyboard input (C30) --------------------- *)
\* this step routes an accepted INPUT of the authenticated session of c,
\* whose handle holds a process, to handleInput
InputStep(c) ==
    /\ Accepted(c)
    /\ ~lastMsg'.frame.isBinary /\ lastMsg'.frame.json = "obj"
    /\ lastMsg'.frame.obj.type = INPUT
    /\ sessions[c].authenticated
    /\ PTYManager_isAlive(sessions[c])

\* C30: each accepted INPUT of an authenticated session is appended verbatim,
\* once, to what has been written to that session's own pty, nothing is
\* written to any other pty, and nothing but an accepted INPUT writes to a
\* pty: the data written are the accepted INPUT data in the order received.
C30_InputForwardedInOrder ==
    [][/\ \A c \in Conn : InputStep(c) =>
              /\ procOwner[sessions[c].ptyProcess] = c
              /\ ptyInput' = [ptyInput EXCEPT ![sessions[c].ptyProcess] =
                                 Append(@, lastMsg'.frame.obj.data)]
       /\ ptyInput' # ptyInput => \E c \in Conn : InputStep(c)]_vars

\* the shell of an authenticated session has been written "a" and then "b",
\* the order in which its transport received them
C30_Witness ==
    \E c \in DOMAIN sessions :
        /\ sessions[c].authenticated
        /\ PTYManager_isAlive(sessions[c])
        /\ procOwner[sessions[c].ptyProcess] = c
        /\ ptyInput[sessions[c].ptyProcess] = <<"a", "b">>
        /\ lastMsg = [c |-> c, frame |-> Input("b")]

(* --------------------------- CLOSED is terminal (C31) ----------------- *)
\* the session of transport c was registered and has been removed
Gone(c) == ws[c] \in {"OPEN", "CLOSING", "CLOSED"} /\ c \notin DOMAIN sessions

\* this step is a transport event of c or a heartbeat tick
EventFor(c) ==
    \/ lastMsg'.c = c
    \/ Pong(c)
    \/ CloseEvent(c)
    \/ handleError(c)
    \/ HeartbeatTick

\* C31: a transport close or error event removes the session from the
\* registry and invokes kill on the process its pty handle holds; every
\* event that arrives for that connection afterwards (inbound message, pong,
\* a further close or error event, a heartbeat tick) registers nothing, kills
\* nothing, sends nothing and touches no pty and no file.
C31_ClosedIsTerminal ==
    [][\A c \in Conn :
         /\ (CloseEvent(c) \/ handleError(c)) /\ c \in DOMAIN sessions
            => /\ c \notin DOMAIN sessions'
               /\ killCount' = kill(killCount, sessions[c])
         /\ Gone(c) /\ EventFor(c)
            => /\ sessions' = sessions
               /\ killCount' = killCount
               /\ sent' = sent
               /\ procState' = procState /\ procOwner' = procOwner
               /\ ptyInput' = ptyInput /\ ptySize' = ptySize
               /\ writes' = writes]_vars

\* the session of a transport that reported an error was removed and its
\* shell killed once, and a message that arrived afterwards on the transport
\* was dropped
C31_Witness ==
    \E c \in Conn :
        /\ Gone(c)
        /\ ws[c] = "CLOSING"
        /\ heartbeatInterval
        /\ lastMsg.c = c
        /\ \E p \in SpawnedFor(c) : killCount[p] = 1

(* --------------------------- coalescer invariant (C32) ---------------- *)
\* C32: between events, for the coalescer of a shell whose transport is open:
\* the buffer is non-empty exactly when a delayed flush is scheduled, at most
\* one delayed flush is scheduled, and the buffer holds exactly the chunks
\* the shell has emitted that no OUTPUT frame has carried yet, so the pending
\* timer's flush sends every emitted byte.
C32_CoalescerInvariant ==
    \A p \in Proc : IsOpen(p) =>
        /\ outputBuffer[p] # << >> <=> flushTimeout[p]
        /\ timers[p] = IF flushTimeout[p] THEN 1 ELSE 0
        /\ outputBuffer[p] = Undelivered(p, emitted[p], sent[procOwner[p]])

\* the coalescer of a shell with an open transport has sent a frame and now
\* holds two further chunks under one pending timer
C32_Witness ==
    \E p \in Proc :
        /\ IsOpen(p)
        /\ \E i \in 1..Len(sent[procOwner[p]]) : FromCoalescer(p, sent[procOwner[p]][i])
        /\ Len(outputBuffer[p]) = 2
        /\ flushTimeout[p]
        /\ timers[p] = 1

(* --------------------------- READY before OUTPUT (C33) ---------------- *)
\* a frame that carries shell output
ShellOutput(m) == m.type = OUTPUT /\ m.data # << >>

\* this step sends a READY to c
SendsReady(c) == sent'[c] = Append(sent[c], ReadyMsg)

\* this step spawns a shell for the session of c
SpawnsFor(c) ==
    \E p \in Proc : procState[p] = "none" /\ procState'[p] = "running" /\ procOwner'[p] = c

\* every frame of shell output sent to a session comes after a READY
C33_ReadyPrecedesOutput ==
    [](\A c \in Conn : \A i \in 1..Len(sent[c]) :
          ShellOutput(sent[c][i]) => \E j \in 1..(i - 1) : sent[c][j] = ReadyMsg)

\* C33: a READY is sent only by a step that has spawned a shell for the
\* session, a step whose spawn fails sends no READY, and every OUTPUT frame
\* carrying shell output on a session is preceded by a READY.
C33_ReadyAfterSpawn ==
    /\ [][\A c \in Conn :
            /\ SendsReady(c) => SpawnsFor(c)
            /\ SpawnFailsStep(c) => ~SendsReady(c)]_vars
    /\ C33_ReadyPrecedesOutput

\* a session was sent READY first and shell output after it
C33_Witness ==
    \E c \in DOMAIN sessions :
        /\ Len(sent[c]) >= 2
        /\ sent[c][1] = ReadyMsg
        /\ ShellOutput(sent[c][Len(sent[c])])
        /\ \A i \in 2..Len(sent[c]) : sent[c][i] # ReadyMsg

(* --------------------------- the AUTH message's token (C34) ----------- *)
\* this step routes an accepted AUTH message of the session of c
AuthStep(c) ==
    /\ Accepted(c)
    /\ ~lastMsg'.frame.isBinary /\ lastMsg'.frame.json = "obj"
    /\ lastMsg'.frame.obj.type = AUTH

\* C34: every accepted AUTH message on a registered session, whatever its
\* token field, leaves the session authenticated and attempts the shell
\* spawn (a shell is spawned for the session, or the spawn failure is
\* reported); it does not call the token service, which only the upgrade
\* handler calls.
C34_AuthIgnoresToken ==
    [][/\ \A c \in Conn : AuthStep(c) =>
              /\ sessions'[c].authenticated
              /\ SpawnsFor(c) \/ Answered(c, "Failed to spawn shell")
              /\ lastCheck' = lastCheck
       /\ lastCheck' # lastCheck => \E c \in Conn, q \in UpgradeParams : upgrade(c, q)]_vars

\* a session accepted with a genuine token received, after the token had
\* expired, an AUTH message carrying that token, and was authenticated and
\* given a shell
C34_Witness ==
    \E c \in DOMAIN sessions :
        /\ lastMsg.c = c
        /\ lastMsg.frame.obj.token \in { r.token : r \in issued }
        /\ ~validateToken(lastMsg.frame.obj.token, now)
        /\ sessions[c].authenticated
        /\ \E p \in SpawnedFor(c) : sessions[c].ptyProcess = p /\ ptyInput[p] = << >>
        /\ sent[c] = <<ReadyMsg>>

====
